---- MODULE Spec2Model ----
(***************************************************************************)
(* Step synchronisation and points accrual pipeline of the Oshi-suta       *)
(* backend: validators, point calculator, Firestore repository and the     *)
(* StepService.sync_steps orchestration, with club affiliation changes.    *)
(* Every store round-trip of a request is one atomic step.                 *)
(***************************************************************************)
EXTENDS Integers, Sequences, FiniteSets, TLC

(***************************************************************************)
(* Bounds of the model                                                     *)
(***************************************************************************)
\* number of requests that may be issued one after the other
MaxRequests == 3
\* number of requests whose round-trips may interleave
MaxConcurrent == 2
\* number of times the server clock may move to the next day
MaxTicks == 1
\* largest history whose every ordering is given to the longest-streak function
MaxPermuted == 4

(***************************************************************************)
(* Program constants (app/config/constants.py)                             *)
(***************************************************************************)
STEPS_PER_POINT == 1000
MAX_DAILY_STEPS == 100000
MIN_STEPS == 0
MAX_STEPS == MAX_DAILY_STEPS

None == "None"
\* a document, log or result that is absent (Python None)
NoDoc == [missing |-> TRUE]
\* strptime raised ValueError: no date (ordinals start at 1)
NoDate == 0

(***************************************************************************)
(* Characters and calendar arithmetic used by the validators.              *)
(* A date string is a sequence of one-character strings.  "FW2" stands for *)
(* U+FF12 (FULLWIDTH DIGIT TWO), a decimal digit for \d and int() that is  *)
(* not an ASCII digit; "LF" stands for a line feed.                        *)
(***************************************************************************)
AsciiDigits == {"0", "1", "2", "3", "4", "5", "6", "7", "8", "9"}

\* the class \d of a str pattern: every Unicode decimal digit
IsDigit(c) == c \in AsciiDigits \cup {"FW2"}

\* int() of one decimal digit character
DigitVal(c) ==
    CASE c = "0" -> 0 [] c = "1" -> 1 [] c = "2" -> 2 [] c = "3" -> 3
      [] c = "4" -> 4 [] c = "5" -> 5 [] c = "6" -> 6 [] c = "7" -> 7
      [] c = "8" -> 8 [] c = "9" -> 9 [] c = "FW2" -> 2

\* re.match(r"^\d{4}-\d{2}-\d{2}$", date_str): "$" also matches just before
\* one trailing line feed
DatePatternMatches(s) ==
    /\ \/ Len(s) = 10
       \/ Len(s) = 11 /\ s[11] = "LF"
    /\ \A i \in {1, 2, 3, 4, 6, 7, 9, 10} : IsDigit(s[i])
    /\ s[5] = "-"
    /\ s[8] = "-"

\* datetime.is_leap / calendar rule used by datetime
IsLeap(y) == (y % 4 = 0) /\ ((y % 100 # 0) \/ (y % 400 = 0))

\* datetime._days_in_month
DaysInMonth(y, m) ==
    IF m = 2 THEN (IF IsLeap(y) THEN 29 ELSE 28)
    ELSE IF m \in {4, 6, 9, 11} THEN 30 ELSE 31

\* datetime._days_before_year
DaysBeforeYear(y) ==
    (y - 1) * 365 + ((y - 1) \div 4) - ((y - 1) \div 100) + ((y - 1) \div 400)

\* datetime._days_before_month
RECURSIVE DaysBeforeMonth(_, _)
DaysBeforeMonth(y, m) ==
    IF m = 1 THEN 0 ELSE DaysBeforeMonth(y, m - 1) + DaysInMonth(y, m - 1)

\* date.toordinal(): proleptic Gregorian ordinal, 0001-01-01 is day 1
ToOrdinal(y, m, d) == DaysBeforeYear(y) + DaysBeforeMonth(y, m) + d

\* the directive %m of strptime: 1[0-2]|0[1-9]|[1-9] followed by "-"
MonthDirectiveMatches(a, b) ==
    \/ a = "1" /\ b \in {"0", "1", "2"}
    \/ a = "0" /\ b \in AsciiDigits \ {"0"}

\* the directive %d of strptime: 3[0-1]|[1-2]\d|0[1-9]|[1-9]| [1-9] at the end
DayDirectiveMatches(a, b) ==
    \/ a = "3" /\ b \in {"0", "1"}
    \/ a \in {"1", "2"} /\ IsDigit(b)
    \/ a = "0" /\ b \in AsciiDigits \ {"0"}

\* datetime.strptime(date_str, "%Y-%m-%d").date().toordinal(),
\* or NoDate where strptime raises ValueError
Strptime(s) ==
    IF /\ Len(s) = 10
       /\ \A i \in 1..4 : IsDigit(s[i])
       /\ s[5] = "-"
       /\ s[8] = "-"
       /\ MonthDirectiveMatches(s[6], s[7])
       /\ DayDirectiveMatches(s[9], s[10])
    THEN LET y == 1000 * DigitVal(s[1]) + 100 * DigitVal(s[2])
                  + 10 * DigitVal(s[3]) + DigitVal(s[4])
             m == 10 * DigitVal(s[6]) + DigitVal(s[7])
             d == 10 * DigitVal(s[9]) + DigitVal(s[10])
         IN  IF y >= 1 /\ d <= DaysInMonth(y, m)
             THEN ToOrdinal(y, m, d)
             ELSE NoDate
    ELSE NoDate

(***************************************************************************)
(* Validators (app/utils/validators.py)                                    *)
(***************************************************************************)
\* mutant: the lower bound is not checked
validate_steps_no_lower_bound(steps) == steps <= MAX_STEPS

validate_steps(steps) == MIN_STEPS <= steps /\ steps <= MAX_STEPS

validate_date_format(date_str) ==
    IF ~DatePatternMatches(date_str) THEN FALSE
    ELSE Strptime(date_str) # NoDate

validate_date_not_future(date_str, now) ==
    IF Strptime(date_str) = NoDate THEN FALSE
    ELSE Strptime(date_str) <= now

(***************************************************************************)
(* Point calculator (app/services/point_calculator.py)                     *)
(***************************************************************************)
\* mutant: rounds to the nearest point instead of rounding down
calculate_points_rounded(steps) ==
    IF steps < 0 THEN 0 ELSE (steps + (STEPS_PER_POINT \div 2)) \div STEPS_PER_POINT

calculate_points(steps) ==
    IF steps < 0 THEN 0 ELSE steps \div STEPS_PER_POINT

\* mutant: the tier is chosen by the club's total instead of the points
calculate_club_contribution_by_total(points, club_total_points) ==
    IF points = 0 THEN <<"Every step counts! Keep walking for your club!">>
    ELSE IF club_total_points >= 10 THEN <<"Amazing! You've earned", points, "points for your club!">>
    ELSE IF club_total_points >= 5 THEN <<"Great job!", points, "points added to your club's total!">>
    ELSE <<"Nice work!", points, "points contributed to your club!">>

calculate_club_contribution(points, club_total_points) ==
    IF points = 0 THEN <<"Every step counts! Keep walking for your club!">>
    ELSE IF points >= 10 THEN <<"Amazing! You've earned", points, "points for your club!">>
    ELSE IF points >= 5 THEN <<"Great job!", points, "points added to your club's total!">>
    ELSE <<"Nice work!", points, "points contributed to your club!">>

(***************************************************************************)
(* State                                                                   *)
(***************************************************************************)
Users == {"u1", "u2"}
Clubs == {"urawa-reds", "fc-tokyo"}
Sources == {"healthkit", "googlefit"}
Requests == 1..MaxRequests

VARIABLES
    users,   \* collection "users":  user id -> document, or NoDoc
    clubs,   \* collection "clubs":  club id -> document, or NoDoc
    steps,   \* collection "steps":  the set of step log documents
    today,   \* datetime.now().date() of the server, as an ordinal
    ticks,   \* how many times the clock has moved to the next day
    req      \* the requests: operation, arguments, locals, position, outcome

vars == <<users, clubs, steps, today, ticks, req>>

\* the three collections of the document store
Store == [users |-> users, clubs |-> clubs, steps |-> steps]

\* a request that has not been issued yet
IdleRequest ==
    [op |-> None, pc |-> "idle", user_id |-> None, steps |-> 0, date |-> <<>>,
     source |-> None, device_signature |-> None, join_club_id |-> None,
     days |-> 0, user |-> NoDoc,
     existing_log |-> NoDoc, points |-> 0, club_id |-> None,
     total_points |-> 0, exc |-> None, detail |-> None, result |-> NoDoc,
     pre |-> NoDoc]   \* pre: history variable of the sequential
                      \* specifications, the store when the request began

\* the clock starts on 2024-02-28, so that a tick reaches a leap day
Init ==
    /\ users = [u \in Users |->
                 [club_id |-> IF u = "u1" THEN "urawa-reds" ELSE None,
                  total_points |-> 0, total_steps |-> 0,
                  updated_at |-> ToOrdinal(2024, 2, 28)]]
    /\ clubs = [c \in Clubs |-> [total_points |-> 0]]
    /\ steps = {}
    /\ today = ToOrdinal(2024, 2, 28)
    /\ ticks = 0
    /\ req = [r \in Requests |-> IdleRequest]

(***************************************************************************)
(* Repository (app/repositories/firestore_repo.py)                         *)
(***************************************************************************)
\* doc_id = f"{user_id}_{date}"
StepDocId(user_id, date) == <<user_id, date>>

\* mutant: the log is added under a fresh id instead of being set under doc_id
DocumentAdd(collection, doc) == collection \cup {doc}

\* document(doc_id).set(data): create the document or replace it
DocumentSet(collection, doc) ==
    {d \in collection : d.id # doc.id} \cup {doc}

get_user(U, user_id) == U[user_id]

get_club(C, club_id) == IF club_id \in DOMAIN C THEN C[club_id] ELSE NoDoc

\* mutant: the log is looked up in the step_logs subcollection, which
\* save_step_log never writes
get_step_log_subcollection(S, user_id, date) ==
    LET step_logs == {}
    IN  IF \E d \in step_logs : d.id = StepDocId(user_id, date)
        THEN CHOOSE d \in step_logs : d.id = StepDocId(user_id, date)
        ELSE NoDoc

get_step_log(S, user_id, date) ==
    IF \E d \in S : d.id = StepDocId(user_id, date)
    THEN CHOOSE d \in S : d.id = StepDocId(user_id, date)
    ELSE NoDoc

\* mutant: the step count is stored in the points field
save_step_log_steps_as_points(S, user_id, date, step_count, points, source, device_signature, now) ==
    DocumentSet(S, [id |-> StepDocId(user_id, date),
                    user_id |-> user_id, date |-> date, steps |-> step_count,
                    points |-> step_count, source |-> source,
                    device_signature |-> device_signature, created_at |-> now])

save_step_log(S, user_id, date, step_count, points, source, device_signature, now) ==
    DocumentSet(S, [id |-> StepDocId(user_id, date),
                    user_id |-> user_id, date |-> date, steps |-> step_count,
                    points |-> points, source |-> source,
                    device_signature |-> device_signature, created_at |-> now])

\* mutant: the total is overwritten with the delta instead of incremented
increment_user_points_overwrite(U, user_id, points, now) ==
    [U EXCEPT ![user_id] = [@ EXCEPT !.total_points = points,
                                     !.updated_at = now]]

\* update() with firestore.Increment: the store adds the delta atomically
increment_user_points(U, user_id, points, now) ==
    [U EXCEPT ![user_id] = [@ EXCEPT !.total_points = @ + points,
                                     !.updated_at = now]]

\* mutant: the total is overwritten with the delta instead of incremented
increment_club_points_overwrite(C, club_id, points) ==
    [C EXCEPT ![club_id] = [@ EXCEPT !.total_points = points]]

increment_club_points(C, club_id, points) ==
    [C EXCEPT ![club_id] = [@ EXCEPT !.total_points = @ + points]]

update_user(U, user_id, data_club_id, now) ==
    [U EXCEPT ![user_id] = [@ EXCEPT !.club_id = data_club_id,
                                     !.updated_at = now]]

\* document(id).update() raises NotFound when the document does not exist
DocExists(collection, id) == id \in DOMAIN collection /\ collection[id] # NoDoc

(***************************************************************************)
(* StepService.sync_steps (app/services/step_service.py), one action per   *)
(* store round-trip of a request                                           *)
(***************************************************************************)
\* requests are issued in the order of their numbers
MayStart(r) ==
    /\ req[r].pc = "idle"
    /\ \A q \in Requests : q < r => req[q].pc # "idle"

Raise(rec, exc, detail) ==
    [rec EXCEPT !.pc = "done", !.exc = exc, !.detail = detail]

\* lines 62-70: the call arrives and its arguments are validated
SyncStart(r, user_id, step_count, date, source, device_signature, pre) ==
    /\ MayStart(r)
    /\ LET call == [IdleRequest EXCEPT !.op = "sync", !.user_id = user_id,
                        !.steps = step_count, !.date = date, !.source = source,
                        !.device_signature = device_signature, !.pre = pre]
       IN  req' = [req EXCEPT ![r] =
                IF ~validate_steps(step_count)
                THEN Raise(call, "ValueError", "Invalid steps count")
                ELSE IF ~validate_date_format(date)
                THEN Raise(call, "ValueError", "Invalid date format")
                ELSE IF ~validate_date_not_future(date, today)
                THEN Raise(call, "ValueError", "Date cannot be in the future")
                ELSE [call EXCEPT !.pc = "get_step_log"]]
    /\ UNCHANGED <<users, clubs, steps, today, ticks>>

\* mutant: a duplicate of a user without record fails as a fresh sync does
GetStepLog_user_required(r) ==
    /\ req[r].pc = "get_step_log"
    /\ LET existing_log == get_step_log(steps, req[r].user_id, req[r].date)
       IN  req' = [req EXCEPT ![r] =
                IF existing_log # NoDoc /\ get_user(users, req[r].user_id) = NoDoc
                THEN Raise(@, "ValueError", "User not found")
                ELSE IF existing_log # NoDoc
                THEN [@ EXCEPT !.existing_log = existing_log,
                               !.pc = "dup_get_user"]
                ELSE [@ EXCEPT !.points = calculate_points(req[r].steps),
                               !.pc = "save_step_log"]]
    /\ UNCHANGED <<users, clubs, steps, today, ticks>>

\* lines 72-74 and 86-88: duplicate check, then the points of a fresh sync
GetStepLog(r) ==
    /\ req[r].pc = "get_step_log"
    /\ LET existing_log == get_step_log(steps, req[r].user_id, req[r].date)
       IN  req' = [req EXCEPT ![r] =
                IF existing_log # NoDoc
                THEN [@ EXCEPT !.existing_log = existing_log,
                               !.pc = "dup_get_user"]
                ELSE [@ EXCEPT !.points = calculate_points(req[r].steps),
                               !.pc = "save_step_log"]]
    /\ UNCHANGED <<users, clubs, steps, today, ticks>>

\* mutant: the duplicate branch credits the stored points to the user again
DupGetUser_recredit(r) ==
    /\ req[r].pc = "dup_get_user"
    /\ users' = increment_user_points(users, req[r].user_id,
                                      req[r].existing_log.points, today)
    /\ req' = [req EXCEPT ![r] = [@ EXCEPT
                !.pc = "done",
                !.result = [points_earned |-> req[r].existing_log.points,
                            total_points |-> users[req[r].user_id].total_points,
                            club_contribution |->
                                <<"Data already synced for this date">>,
                            is_verified |-> TRUE,
                            is_duplicate |-> TRUE]]]
    /\ UNCHANGED <<clubs, steps, today, ticks>>

\* lines 75-84: the answer to a duplicate
DupGetUser(r) ==
    /\ req[r].pc = "dup_get_user"
    /\ LET user == get_user(users, req[r].user_id)
       IN  req' = [req EXCEPT ![r] = [@ EXCEPT
                !.pc = "done",
                !.result = [points_earned |-> req[r].existing_log.points,
                            total_points |-> IF user # NoDoc
                                             THEN user.total_points ELSE 0,
                            club_contribution |->
                                <<"Data already synced for this date">>,
                            is_verified |-> TRUE,
                            is_duplicate |-> TRUE]]]
    /\ UNCHANGED <<users, clubs, steps, today, ticks>>

\* mutant: the request goes on to credit without writing its step log
SaveStepLog_no_write(r) ==
    /\ req[r].pc = "save_step_log"
    /\ req' = [req EXCEPT ![r].pc = "increment_user_points"]
    /\ UNCHANGED <<users, clubs, steps, today, ticks>>

\* lines 90-98
SaveStepLog(r) ==
    /\ req[r].pc = "save_step_log"
    /\ steps' = save_step_log(steps, req[r].user_id, req[r].date, req[r].steps,
                              req[r].points, req[r].source,
                              req[r].device_signature, today)
    /\ req' = [req EXCEPT ![r].pc = "increment_user_points"]
    /\ UNCHANGED <<users, clubs, today, ticks>>

\* mutant: the user increment is skipped and the sync goes on
IncrementUserPoints_skipped(r) ==
    /\ req[r].pc = "increment_user_points"
    /\ req' = [req EXCEPT ![r].pc = "get_user"]
    /\ UNCHANGED <<users, clubs, steps, today, ticks>>

\* lines 100-101
IncrementUserPoints(r) ==
    /\ req[r].pc = "increment_user_points"
    /\ IF DocExists(users, req[r].user_id)
       THEN /\ users' = increment_user_points(users, req[r].user_id,
                                              req[r].points, today)
            /\ req' = [req EXCEPT ![r].pc = "get_user"]
       ELSE /\ req' = [req EXCEPT ![r] = Raise(@, "NotFound", "No document to update")]
            /\ UNCHANGED users
    /\ UNCHANGED <<clubs, steps, today, ticks>>

\* lines 103-108
GetUser(r) ==
    /\ req[r].pc = "get_user"
    /\ LET user == get_user(users, req[r].user_id)
       IN  req' = [req EXCEPT ![r] =
                IF user = NoDoc
                THEN Raise(@, "ValueError", "User not found")
                ELSE [@ EXCEPT !.club_id = user.club_id,
                               !.pc = IF user.club_id # None
                                      THEN "increment_club_points"
                                      ELSE "get_updated_user"]]
    /\ UNCHANGED <<users, clubs, steps, today, ticks>>

\* mutant: the points are added to every club
IncrementClubPoints_every_club(r) ==
    /\ req[r].pc = "increment_club_points"
    /\ clubs' = [c \in Clubs |-> [clubs[c] EXCEPT !.total_points = @ + req[r].points]]
    /\ req' = [req EXCEPT ![r].pc = "get_updated_user"]
    /\ UNCHANGED <<users, steps, today, ticks>>

\* lines 110-112
IncrementClubPoints(r) ==
    /\ req[r].pc = "increment_club_points"
    /\ IF DocExists(clubs, req[r].club_id)
       THEN /\ clubs' = increment_club_points(clubs, req[r].club_id, req[r].points)
            /\ req' = [req EXCEPT ![r].pc = "get_updated_user"]
       ELSE /\ req' = [req EXCEPT ![r] = Raise(@, "NotFound", "No document to update")]
            /\ UNCHANGED clubs
    /\ UNCHANGED <<users, steps, today, ticks>>

\* lines 125-131
SyncResult(rec, total_points) ==
    [points_earned |-> rec.points,
     total_points |-> total_points,
     club_contribution |-> calculate_club_contribution(rec.points, 0),
     is_verified |-> TRUE,
     is_duplicate |-> FALSE]

\* lines 114-116 (and 118-131 for a user without a club, where line 119
\* makes no round-trip)
GetUpdatedUser(r) ==
    /\ req[r].pc = "get_updated_user"
    /\ LET updated_user == get_user(users, req[r].user_id)
           total_points == IF updated_user # NoDoc
                           THEN updated_user.total_points ELSE 0
       IN  req' = [req EXCEPT ![r] =
                IF req[r].club_id # None
                THEN [@ EXCEPT !.total_points = total_points, !.pc = "get_club"]
                ELSE [@ EXCEPT !.total_points = total_points, !.pc = "done",
                               !.result = SyncResult(req[r], total_points)]]
    /\ UNCHANGED <<users, clubs, steps, today, ticks>>

\* lines 118-131
GetClub(r) ==
    /\ req[r].pc = "get_club"
    /\ LET club == get_club(clubs, req[r].club_id)
           club_total == IF club # NoDoc THEN club.total_points ELSE 0
       IN  req' = [req EXCEPT ![r] = [@ EXCEPT
                !.pc = "done",
                !.result = [SyncResult(req[r], req[r].total_points) EXCEPT
                    !.club_contribution =
                        calculate_club_contribution(req[r].points, club_total)]]]
    /\ UNCHANGED <<users, clubs, steps, today, ticks>>

(***************************************************************************)
(* join_club (app/api/v1/endpoints/clubs.py)                               *)
(***************************************************************************)
JoinStart(r, user_id, club_id, pre) ==
    /\ MayStart(r)
    /\ req' = [req EXCEPT ![r] = [IdleRequest EXCEPT !.op = "join",
                  !.user_id = user_id, !.join_club_id = club_id,
                  !.pre = pre, !.pc = "join_get_club"]]
    /\ UNCHANGED <<users, clubs, steps, today, ticks>>

\* lines 238-245
JoinGetClub(r) ==
    /\ req[r].pc = "join_get_club"
    /\ req' = [req EXCEPT ![r] =
            IF get_club(clubs, req[r].join_club_id) = NoDoc
            THEN Raise(@, "HTTPException", "Club not found")
            ELSE [@ EXCEPT !.pc = "update_user"]]
    /\ UNCHANGED <<users, clubs, steps, today, ticks>>

\* lines 256-265
JoinUpdateUser(r) ==
    /\ req[r].pc = "update_user"
    /\ IF DocExists(users, req[r].user_id)
       THEN /\ users' = update_user(users, req[r].user_id, req[r].join_club_id, today)
            /\ req' = [req EXCEPT ![r] = [@ EXCEPT !.pc = "done",
                            !.result = [club_id |-> req[r].join_club_id]]]
       ELSE /\ req' = [req EXCEPT ![r] = Raise(@, "NotFound", "No document to update")]
            /\ UNCHANGED users
    /\ UNCHANGED <<clubs, steps, today, ticks>>

(***************************************************************************)
(* Statistics (get_user_step_history, get_user_history, get_user_stats)    *)
(***************************************************************************)
\* code point of a character: Firestore orders strings by their encoding
CharOrd(c) ==
    CASE c = "LF" -> 10 [] c = "-" -> 45 [] c = "/" -> 47
      [] c \in AsciiDigits -> 48 + DigitVal(c)
      [] c = "a" -> 97 [] c = "FW2" -> 65298

\* a < b in the order of strings
RECURSIVE StrLess(_, _)
StrLess(a, b) ==
    IF b = <<>> THEN FALSE
    ELSE IF a = <<>> THEN TRUE
    ELSE IF CharOrd(Head(a)) # CharOrd(Head(b))
         THEN CharOrd(Head(a)) < CharOrd(Head(b))
         ELSE StrLess(Tail(a), Tail(b))

\* order_by("date", direction=DESCENDING)
RECURSIVE OrderByDateDesc(_)
OrderByDateDesc(docs) ==
    IF docs = {} THEN <<>>
    ELSE LET first == CHOOSE d \in docs :
                          \A e \in docs : ~StrLess(d.date, e.date)
         IN  <<first>> \o OrderByDateDesc(docs \ {first})

Min(a, b) == IF a <= b THEN a ELSE b
Max(a, b) == IF a >= b THEN a ELSE b

\* firestore_repo.py lines 280-294
get_user_step_history(S, user_id, limit) ==
    LET ordered == OrderByDateDesc({d \in S : d.user_id = user_id})
    IN  SubSeq(ordered, 1, Min(limit, Len(ordered)))

\* step_service.py lines 212-231
RECURSIVE CurrentStreakFrom(_, _, _)
CurrentStreakFrom(history, i, expected_date) ==
    IF i > Len(history) THEN 0
    ELSE IF history[i].date = <<>>
         THEN CurrentStreakFrom(history, i + 1, expected_date)
         ELSE IF Strptime(history[i].date) = expected_date
              THEN 1 + CurrentStreakFrom(history, i + 1, expected_date - 1)
              ELSE 0

\* mutant: the streak is counted from the newest log instead of from today
calculate_current_streak_from_newest(history, now) ==
    IF history = <<>> THEN 0
    ELSE CurrentStreakFrom(history, 1, Strptime(history[1].date))

calculate_current_streak(history, now) ==
    IF history = <<>> THEN 0 ELSE CurrentStreakFrom(history, 1, now)

\* sorted(history, key=strptime(date)): stable insertion by parsed date
RECURSIVE InsertByDate(_, _)
InsertByDate(sorted, log) ==
    IF sorted = <<>> THEN <<log>>
    ELSE IF Strptime(log.date) < Strptime(Head(sorted).date)
         THEN <<log>> \o sorted
         ELSE <<Head(sorted)>> \o InsertByDate(Tail(sorted), log)

RECURSIVE SortedByDate(_)
SortedByDate(history) ==
    IF history = <<>> THEN <<>>
    ELSE InsertByDate(SortedByDate(SubSeq(history, 1, Len(history) - 1)),
                      history[Len(history)])

\* step_service.py lines 252-271: the loop from index i on
RECURSIVE LongestStreakFrom(_, _, _, _)
LongestStreakFrom(sorted_history, i, current_streak, max_streak) ==
    IF i > Len(sorted_history) THEN max_streak
    ELSE IF Strptime(sorted_history[i].date)
              - Strptime(sorted_history[i - 1].date) = 1
         THEN LongestStreakFrom(sorted_history, i + 1, current_streak + 1,
                                Max(max_streak, current_streak + 1))
         ELSE LongestStreakFrom(sorted_history, i + 1, 1, max_streak)

\* mutant: the history is not sorted before the runs are counted
calculate_longest_streak_unsorted(history) ==
    IF history = <<>> THEN 0
    ELSE LongestStreakFrom(history, 2, 1, 1)

calculate_longest_streak(history) ==
    IF history = <<>> THEN 0
    ELSE LongestStreakFrom(SortedByDate(history), 2, 1, 1)

\* mutant: the points of the logs are summed instead of their steps
RECURSIVE SumSteps_points(_)
SumSteps_points(history) ==
    IF history = <<>> THEN 0
    ELSE Head(history).points + SumSteps_points(Tail(history))

RECURSIVE SumSteps(_)
SumSteps(history) ==
    IF history = <<>> THEN 0 ELSE Head(history).steps + SumSteps(Tail(history))

RECURSIVE MaxSteps(_)
MaxSteps(history) ==
    IF Len(history) = 1 THEN history[1].steps
    ELSE Max(Head(history).steps, MaxSteps(Tail(history)))

\* round(total_steps / active_days, 2) in hundredths; a tie goes to the even
\* hundredth
RoundedAverage(total_steps, active_days) ==
    LET q == (100 * total_steps) \div active_days
        rem == (100 * total_steps) % active_days
    IN  IF 2 * rem > active_days THEN q + 1
        ELSE IF 2 * rem < active_days THEN q
        ELSE IF q % 2 = 0 THEN q ELSE q + 1

\* mutant: a user without logs is reported with zero points
UserStats_zero_points(user_id, user, history, now) ==
    IF history = <<>>
    THEN [user_id |-> user_id, total_steps |-> 0,
          total_points |-> 0, average_daily_steps |-> 0,
          max_daily_steps |-> 0, active_days |-> 0,
          current_streak |-> 0, longest_streak |-> 0]
    ELSE [user_id |-> user_id, total_steps |-> SumSteps(history),
          total_points |-> user.total_points,
          average_daily_steps |-> RoundedAverage(SumSteps(history), Len(history)),
          max_daily_steps |-> MaxSteps(history),
          active_days |-> Len(history),
          current_streak |-> calculate_current_streak(history, now),
          longest_streak |-> calculate_longest_streak(history)]

\* step_service.py lines 169-200
UserStats(user_id, user, history, now) ==
    IF history = <<>>
    THEN [user_id |-> user_id, total_steps |-> 0,
          total_points |-> user.total_points, average_daily_steps |-> 0,
          max_daily_steps |-> 0, active_days |-> 0,
          current_streak |-> 0, longest_streak |-> 0]
    ELSE [user_id |-> user_id, total_steps |-> SumSteps(history),
          total_points |-> user.total_points,
          average_daily_steps |-> RoundedAverage(SumSteps(history), Len(history)),
          max_daily_steps |-> MaxSteps(history),
          active_days |-> Len(history),
          current_streak |-> calculate_current_streak(history, now),
          longest_streak |-> calculate_longest_streak(history)]

\* steps.py get_step_history: days is the query parameter (1..365)
HistoryStart(r, user_id, days, pre) ==
    /\ MayStart(r)
    /\ req' = [req EXCEPT ![r] = [IdleRequest EXCEPT !.op = "history",
                  !.user_id = user_id, !.days = days, !.pre = pre,
                  !.pc = "get_user_step_history"]]
    /\ UNCHANGED <<users, clubs, steps, today, ticks>>

\* step_service.py lines 148-149 and steps.py lines 125-141
GetUserHistory(r) ==
    /\ req[r].pc = "get_user_step_history"
    /\ LET history == get_user_step_history(steps, req[r].user_id, req[r].days)
       IN  req' = [req EXCEPT ![r] = [@ EXCEPT !.pc = "done",
                !.result = [user_id |-> req[r].user_id,
                            total_records |-> Len(history),
                            history |-> [i \in 1..Len(history) |->
                                [date |-> history[i].date,
                                 steps |-> history[i].steps,
                                 points |-> history[i].points,
                                 source |-> history[i].source,
                                 created_at |-> history[i].created_at]]]]]
    /\ UNCHANGED <<users, clubs, steps, today, ticks>>

StatsStart(r, user_id, pre) ==
    /\ MayStart(r)
    /\ req' = [req EXCEPT ![r] = [IdleRequest EXCEPT !.op = "stats",
                  !.user_id = user_id, !.pre = pre, !.pc = "stats_get_user"]]
    /\ UNCHANGED <<users, clubs, steps, today, ticks>>

\* mutant: an absent user is answered with empty statistics
StatsGetUser_empty_stats(r) ==
    /\ req[r].pc = "stats_get_user"
    /\ LET user == get_user(users, req[r].user_id)
       IN  req' = [req EXCEPT ![r] =
                IF user = NoDoc
                THEN [@ EXCEPT !.pc = "done",
                        !.result = [user_id |-> req[r].user_id, total_steps |-> 0,
                                    total_points |-> 0, average_daily_steps |-> 0,
                                    max_daily_steps |-> 0, active_days |-> 0,
                                    current_streak |-> 0, longest_streak |-> 0]]
                ELSE [@ EXCEPT !.user = user, !.pc = "stats_get_history"]]
    /\ UNCHANGED <<users, clubs, steps, today, ticks>>

\* step_service.py lines 161-164
StatsGetUser(r) ==
    /\ req[r].pc = "stats_get_user"
    /\ LET user == get_user(users, req[r].user_id)
       IN  req' = [req EXCEPT ![r] =
                IF user = NoDoc
                THEN Raise(@, "ValueError", "User not found")
                ELSE [@ EXCEPT !.user = user, !.pc = "stats_get_history"]]
    /\ UNCHANGED <<users, clubs, steps, today, ticks>>

\* step_service.py lines 166-200
StatsGetHistory(r) ==
    /\ req[r].pc = "stats_get_history"
    /\ LET history == get_user_step_history(steps, req[r].user_id, 365)
       IN  req' = [req EXCEPT ![r] = [@ EXCEPT !.pc = "done",
                !.result = UserStats(req[r].user_id, req[r].user, history, today)]]
    /\ UNCHANGED <<users, clubs, steps, today, ticks>>

(***************************************************************************)
(* The server clock                                                        *)
(***************************************************************************)
Tick ==
    /\ ticks < MaxTicks
    /\ today' = today + 1
    /\ ticks' = ticks + 1
    /\ UNCHANGED <<users, clubs, steps, req>>

(***************************************************************************)
(* Inputs                                                                  *)
(***************************************************************************)
D_2024_02_27 == <<"2", "0", "2", "4", "-", "0", "2", "-", "2", "7">>
D_2024_02_28 == <<"2", "0", "2", "4", "-", "0", "2", "-", "2", "8">>
D_2024_02_29 == <<"2", "0", "2", "4", "-", "0", "2", "-", "2", "9">>

StepInputs == {2000, 5432}
DateInputs == {D_2024_02_27, D_2024_02_28}

(***************************************************************************)
(* Spec: requests whose round-trips interleave in any order                *)
(***************************************************************************)
SyncCall(r) ==
    \E user_id \in Users, step_count \in StepInputs, date \in DateInputs,
       source \in {"healthkit"}, device_signature \in {"dev1"} :
        SyncStart(r, user_id, step_count, date, source, device_signature, NoDoc)

JoinCall(r) ==
    \E user_id \in Users, club_id \in Clubs :
        JoinStart(r, user_id, club_id, NoDoc)

Next ==
    \E r \in 1..MaxConcurrent :
        \/ SyncCall(r)
        \/ GetStepLog(r)
        \/ DupGetUser(r)
        \/ SaveStepLog(r)
        \/ IncrementUserPoints(r)
        \/ GetUser(r)
        \/ IncrementClubPoints(r)
        \/ GetUpdatedUser(r)
        \/ GetClub(r)
        \/ JoinCall(r)
        \/ JoinGetClub(r)
        \/ JoinUpdateUser(r)

Spec == Init /\ [][Next]_vars

(***************************************************************************)
(* SpecDistinct: interleaved sync requests, where no two requests for the  *)
(* same (user, date) are in flight together                                *)
(***************************************************************************)
InFlight == {q \in Requests : req[q].pc \notin {"idle", "done"}}

DistinctSyncCall(r) ==
    \E user_id \in Users, step_count \in StepInputs, date \in DateInputs,
       source \in {"healthkit"}, device_signature \in {"dev1"} :
        /\ \A q \in InFlight :
               ~(req[q].op = "sync" /\ req[q].user_id = user_id
                                    /\ req[q].date = date)
        \* history: the requests in flight when this one begins
        /\ SyncStart(r, user_id, step_count, date, source, device_signature,
                     [in_flight |-> InFlight])

NextDistinct ==
    \E r \in 1..MaxConcurrent :
        \/ DistinctSyncCall(r)
        \/ GetStepLog(r)
        \/ DupGetUser(r)
        \/ SaveStepLog(r)
        \/ IncrementUserPoints(r)
        \/ GetUser(r)
        \/ IncrementClubPoints(r)
        \/ GetUpdatedUser(r)
        \/ GetClub(r)

SpecDistinct == Init /\ [][NextDistinct]_vars

(***************************************************************************)
(* SpecPipe: sync, join, history and statistics requests interleaved       *)
(***************************************************************************)
HistoryCall(r) ==
    \E user_id \in Users, days \in {1, 365} :
        HistoryStart(r, user_id, days, NoDoc)

StatsCall(r) == \E user_id \in Users : StatsStart(r, user_id, NoDoc)

NextPipe ==
    \E r \in 1..MaxConcurrent :
        \/ SyncCall(r)
        \/ GetStepLog(r)
        \/ DupGetUser(r)
        \/ SaveStepLog(r)
        \/ IncrementUserPoints(r)
        \/ GetUser(r)
        \/ IncrementClubPoints(r)
        \/ GetUpdatedUser(r)
        \/ GetClub(r)
        \/ JoinCall(r)
        \/ JoinGetClub(r)
        \/ JoinUpdateUser(r)
        \/ HistoryCall(r)
        \/ GetUserHistory(r)
        \/ StatsCall(r)
        \/ StatsGetUser(r)
        \/ StatsGetHistory(r)

SpecPipe == Init /\ [][NextPipe]_vars

(***************************************************************************)
(* SpecSeq: one request at a time, each running to completion              *)
(***************************************************************************)
\* no request is in flight
Quiet == \A q \in Requests : req[q].pc \in {"idle", "done"}

\* history: the store and the clock as a request finds them
Snapshot == [users |-> users, clubs |-> clubs, steps |-> steps, today |-> today]

SeqStepInputs == {999, 5432}
\* a reporting device: its platform and its signature
Devices == {<<"healthkit", "dev1">>, <<"googlefit", "dev2">>}

SeqSyncCall(r) ==
    /\ Quiet
    /\ \E user_id \in Users, step_count \in SeqStepInputs, date \in DateInputs,
          device \in Devices :
           SyncStart(r, user_id, step_count, date, device[1], device[2],
                     Snapshot)

SeqJoinCall(r) ==
    /\ Quiet
    /\ \E user_id \in Users, club_id \in Clubs :
           JoinStart(r, user_id, club_id, Snapshot)

NextSeq ==
    \E r \in Requests :
        \/ SeqSyncCall(r)
        \/ GetStepLog(r)
        \/ DupGetUser(r)
        \/ SaveStepLog(r)
        \/ IncrementUserPoints(r)
        \/ GetUser(r)
        \/ IncrementClubPoints(r)
        \/ GetUpdatedUser(r)
        \/ GetClub(r)
        \/ SeqJoinCall(r)
        \/ JoinGetClub(r)
        \/ JoinUpdateUser(r)

SpecSeq == Init /\ [][NextSeq]_vars

(***************************************************************************)
(* SpecVal: one request at a time while the clock runs; the last request   *)
(* carries arbitrary step counts and date strings                          *)
(***************************************************************************)
YearInputs ==
    {<<"0", "0", "0", "0">>, <<"1", "9", "0", "0">>, <<"2", "0", "0", "0">>,
     <<"2", "0", "2", "3">>, <<"2", "0", "2", "4">>, <<"2", "0", "2", "5">>,
     <<"FW2", "0", "2", "4">>}
MonthInputs ==
    {<<"0", "0">>, <<"0", "2">>, <<"0", "4">>, <<"1", "2">>, <<"1", "3">>,
     <<"0", "FW2">>}
DayInputs ==
    {<<"0", "0">>, <<"0", "1">>, <<"2", "9">>, <<"3", "0">>, <<"3", "1">>,
     <<"3", "2">>, <<"2", "FW2">>}

WideDateInputs ==
    {y \o <<"-">> \o m \o <<"-">> \o d :
        y \in YearInputs, m \in MonthInputs, d \in DayInputs}
    \cup {<<>>,
          D_2024_02_27 \o <<"LF">>,
          <<"2", "0", "2", "4", "/", "0", "2", "/", "2", "7">>,
          <<"2", "0", "2", "4", "-", "2", "-", "2", "7">>,
          <<"2", "7", "-", "0", "2", "-", "2", "0", "2", "4">>,
          <<"2", "0", "2", "4", "-", "0", "2", "-", "2", "a">>,
          <<"2", "0", "2", "4", "0", "2", "2", "7">>}

WideStepInputs == {-1, 0, 5432, MAX_STEPS, MAX_STEPS + 1}

ValFirstCall(r) ==
    /\ r < MaxRequests
    /\ Quiet
    /\ \E date \in DateInputs :
           SyncStart(r, "u1", 5432, date, "healthkit", "dev1", Snapshot)

ValWideCall(r) ==
    /\ r = MaxRequests
    /\ Quiet
    /\ \E step_count \in WideStepInputs, date \in WideDateInputs :
           SyncStart(r, "u1", step_count, date, "googlefit", "dev2", Snapshot)

NextVal ==
    \/ Tick
    \/ \E r \in Requests :
        \/ ValFirstCall(r)
        \/ ValWideCall(r)
        \/ GetStepLog(r)
        \/ DupGetUser(r)
        \/ SaveStepLog(r)
        \/ IncrementUserPoints(r)
        \/ GetUser(r)
        \/ IncrementClubPoints(r)
        \/ GetUpdatedUser(r)
        \/ GetClub(r)

SpecVal == Init /\ [][NextVal]_vars

(***************************************************************************)
(* Storage failures.  Every repository method logs the exception of the    *)
(* Firestore client and re-raises it; sync_steps lets it propagate.  The   *)
(* client may raise before the write reached the store or after it did     *)
(* (a lost acknowledgement): written chooses between the two.              *)
(***************************************************************************)
FailureDetail(method, written) ==
    IF written THEN method \o " failed, written" ELSE method \o " failed, not written"

\* firestore_repo.py lines 238-242
SaveStepLogFails(r, written) ==
    /\ req[r].pc = "save_step_log"
    /\ steps' = IF written
                THEN save_step_log(steps, req[r].user_id, req[r].date,
                                   req[r].steps, req[r].points, req[r].source,
                                   req[r].device_signature, today)
                ELSE steps
    /\ req' = [req EXCEPT ![r] = Raise(@, "GoogleAPICallError",
                                       FailureDetail("save_step_log", written))]
    /\ UNCHANGED <<users, clubs, today, ticks>>

\* firestore_repo.py lines 119-128
IncrementUserPointsFails(r, written) ==
    /\ req[r].pc = "increment_user_points"
    /\ written => DocExists(users, req[r].user_id)
    /\ users' = IF written
                THEN increment_user_points(users, req[r].user_id,
                                           req[r].points, today)
                ELSE users
    /\ req' = [req EXCEPT ![r] = Raise(@, "GoogleAPICallError",
                                   FailureDetail("increment_user_points", written))]
    /\ UNCHANGED <<clubs, steps, today, ticks>>

\* firestore_repo.py lines 193-201
IncrementClubPointsFails(r, written) ==
    /\ req[r].pc = "increment_club_points"
    /\ written => DocExists(clubs, req[r].club_id)
    /\ clubs' = IF written
                THEN increment_club_points(clubs, req[r].club_id, req[r].points)
                ELSE clubs
    /\ req' = [req EXCEPT ![r] = Raise(@, "GoogleAPICallError",
                                   FailureDetail("increment_club_points", written))]
    /\ UNCHANGED <<users, steps, today, ticks>>

\* the request is cut off between two round-trips (the server process stops,
\* or the request task is cancelled on a timeout); it writes nothing more
Cancel(r) ==
    /\ req[r].op = "sync"
    /\ req[r].pc \notin {"idle", "done"}
    /\ req' = [req EXCEPT ![r] = Raise(@, "CancelledError", req[r].pc)]
    /\ UNCHANGED <<users, clubs, steps, today, ticks>>

(***************************************************************************)
(* The sync endpoint (app/api/v1/endpoints/steps.py)                       *)
(***************************************************************************)
HTTP_200_OK == 200
HTTP_400_BAD_REQUEST == 400
HTTP_500_INTERNAL_SERVER_ERROR == 500

\* steps.py lines 61-90: the status code the caller of a finished sync sees
StatusCode(rec) ==
    IF rec.exc = None THEN HTTP_200_OK
    ELSE IF rec.exc = "ValueError" THEN HTTP_400_BAD_REQUEST
    ELSE HTTP_500_INTERNAL_SERVER_ERROR

\* steps.py lines 73-78 and schemas.py StepSyncResponse: the fields of the
\* response body (synced_at is the time of the response)
StepSyncResponse(result, now) ==
    [points_earned |-> result.points_earned,
     total_points |-> result.total_points,
     club_contribution |-> result.club_contribution,
     is_verified |-> result.is_verified,
     synced_at |-> now]

(***************************************************************************)
(* SpecFail: one sync request at a time; a request may fail with a storage *)
(* error or be cut off, and later requests retry                           *)
(***************************************************************************)
FailSyncCall(r) ==
    /\ Quiet
    /\ \E user_id \in Users, date \in DateInputs :
           SyncStart(r, user_id, 5432, date, "healthkit", "dev1", Snapshot)

NextFail ==
    \E r \in Requests :
        \/ FailSyncCall(r)
        \/ GetStepLog(r)
        \/ DupGetUser(r)
        \/ SaveStepLog(r)
        \/ IncrementUserPoints(r)
        \/ GetUser(r)
        \/ IncrementClubPoints(r)
        \/ GetUpdatedUser(r)
        \/ GetClub(r)
        \/ \E written \in BOOLEAN : SaveStepLogFails(r, written)
        \/ \E written \in BOOLEAN : IncrementUserPointsFails(r, written)
        \/ \E written \in BOOLEAN : IncrementClubPointsFails(r, written)
        \/ Cancel(r)

SpecFail == Init /\ [][NextFail]_vars

(***************************************************************************)
(* SpecGone: interleaved sync requests while user documents are deleted by *)
(* another client of the store (this service has no operation that deletes *)
(* a user; get_user and sync_steps handle the absent document)             *)
(***************************************************************************)
DeleteUser(user_id) ==
    /\ users[user_id] # NoDoc
    /\ users' = [users EXCEPT ![user_id] = NoDoc]
    /\ UNCHANGED <<clubs, steps, today, ticks, req>>

GoneSyncCall(r) ==
    \E user_id \in Users, step_count \in WideStepInputs, date \in DateInputs :
        SyncStart(r, user_id, step_count, date, "healthkit", "dev1", NoDoc)

NextGone ==
    \/ \E user_id \in Users : DeleteUser(user_id)
    \/ \E r \in 1..MaxConcurrent :
        \/ GoneSyncCall(r)
        \/ GetStepLog(r)
        \/ DupGetUser(r)
        \/ SaveStepLog(r)
        \/ IncrementUserPoints(r)
        \/ GetUser(r)
        \/ IncrementClubPoints(r)
        \/ GetUpdatedUser(r)
        \/ GetClub(r)

SpecGone == Init /\ [][NextGone]_vars

(***************************************************************************)
(* SpecClub: both users are registered with the same club; their sync      *)
(* requests interleave, no two requests for one (user, date) in flight     *)
(* together                                                                *)
(***************************************************************************)
InitClub ==
    /\ users = [u \in Users |->
                 [club_id |-> "urawa-reds", total_points |-> 0,
                  total_steps |-> 0, updated_at |-> ToOrdinal(2024, 2, 28)]]
    /\ clubs = [c \in Clubs |-> [total_points |-> 0]]
    /\ steps = {}
    /\ today = ToOrdinal(2024, 2, 28)
    /\ ticks = 0
    /\ req = [r \in Requests |-> IdleRequest]

SpecClub == InitClub /\ [][NextDistinct]_vars

(***************************************************************************)
(* SpecPoints: PointCalculator.calculate_points applied to a step count    *)
(***************************************************************************)
\* step counts around every multiple of STEPS_PER_POINT up to MAX_STEPS, and
\* negative counts
PointInputs ==
    {k * STEPS_PER_POINT + d : k \in 0..(MAX_STEPS \div STEPS_PER_POINT),
                               d \in {-1, 0, 1, 432, 999}}

InitPoints ==
    /\ users = [u \in Users |->
                 [club_id |-> IF u = "u1" THEN "urawa-reds" ELSE None,
                  total_points |-> 0, total_steps |-> 0,
                  updated_at |-> ToOrdinal(2024, 2, 28)]]
    /\ clubs = [c \in Clubs |-> [total_points |-> 0]]
    /\ steps = {}
    /\ today = ToOrdinal(2024, 2, 28)
    /\ ticks = 0
    /\ \E step_count \in PointInputs \cup {-MAX_STEPS, -STEPS_PER_POINT} :
           req = [r \in Requests |->
                    IF r = 1
                    THEN [IdleRequest EXCEPT !.op = "calculate_points",
                                             !.steps = step_count]
                    ELSE IdleRequest]

\* point_calculator.py lines 26-49
CalculatePoints(r) ==
    /\ req[r].op = "calculate_points"
    /\ req[r].pc = "idle"
    /\ req' = [req EXCEPT ![r] = [@ EXCEPT !.pc = "done",
                                    !.points = calculate_points(req[r].steps)]]
    /\ UNCHANGED <<users, clubs, steps, today, ticks>>

NextPoints == \E r \in Requests : CalculatePoints(r)

SpecPoints == InitPoints /\ [][NextPoints]_vars

(***************************************************************************)
(* SpecStats: statistics over a store that holds the logs of user u1 for   *)
(* some of the eight days up to today, 2024-03-02                          *)
(***************************************************************************)
D_2024_02_24 == <<"2", "0", "2", "4", "-", "0", "2", "-", "2", "4">>
D_2024_02_25 == <<"2", "0", "2", "4", "-", "0", "2", "-", "2", "5">>
D_2024_02_26 == <<"2", "0", "2", "4", "-", "0", "2", "-", "2", "6">>
D_2024_03_01 == <<"2", "0", "2", "4", "-", "0", "3", "-", "0", "1">>
D_2024_03_02 == <<"2", "0", "2", "4", "-", "0", "3", "-", "0", "2">>

\* eight consecutive days, oldest first; the last one is today
StreakDays ==
    <<D_2024_02_24, D_2024_02_25, D_2024_02_26, D_2024_02_27,
      D_2024_02_28, D_2024_02_29, D_2024_03_01, D_2024_03_02>>

\* the document that a sync of 5432 steps by u1 for the date stores
StreakLog(date) ==
    CHOOSE d \in save_step_log({}, "u1", date, 5432, calculate_points(5432),
                               "healthkit", "dev1", Strptime(date)) : TRUE

\* the orderings of a set of logs: all of them for a small set, otherwise
\* newest first and oldest first
Orderings(logs) ==
    IF Cardinality(logs) <= MaxPermuted
    THEN {h \in [1..Cardinality(logs) -> logs] :
             \A i \in DOMAIN h, j \in DOMAIN h : i # j => h[i] # h[j]}
    ELSE LET desc == OrderByDateDesc(logs)
         IN  {desc, [i \in 1..Len(desc) |-> desc[Len(desc) + 1 - i]]}

\* user totals as the ledger has them, except that the total of a user
\* without logs is any stored value
InitStats ==
    /\ \E days \in SUBSET (1..Len(StreakDays)) :
           /\ steps = {StreakLog(StreakDays[i]) : i \in days}
           /\ \E stored \in {0, 7} :
                  users = [u \in Users |->
                      [club_id |-> IF u = "u1" THEN "urawa-reds" ELSE None,
                       total_points |-> IF u = "u2" THEN stored
                                        ELSE calculate_points(5432) * Cardinality(days),
                       total_steps |-> 0,
                       updated_at |-> ToOrdinal(2024, 3, 2)]]
    /\ clubs = [c \in Clubs |-> [total_points |-> 0]]
    /\ today = ToOrdinal(2024, 3, 2)
    /\ ticks = 0
    /\ req = [r \in Requests |-> IdleRequest]

\* step_service.py lines 233-271, applied to the logs in the given order
LongestStreak(r, history) ==
    /\ MayStart(r)
    /\ req' = [req EXCEPT ![r] = [IdleRequest EXCEPT
                  !.op = "longest_streak", !.pc = "done",
                  !.result = [history |-> history,
                              longest_streak |-> calculate_longest_streak(history)]]]
    /\ UNCHANGED <<users, clubs, steps, today, ticks>>

NextStats ==
    \E r \in {1} :
        \/ StatsCall(r)
        \/ StatsGetUser(r)
        \/ StatsGetHistory(r)
        \/ \E history \in Orderings({d \in steps : d.user_id = "u1"}) :
               LongestStreak(r, history)

SpecStats == InitStats /\ [][NextStats]_vars

(***************************************************************************)
(* The statistics endpoint (app/api/v1/endpoints/steps.py)                 *)
(***************************************************************************)
HTTP_404_NOT_FOUND == 404

\* steps.py lines 182-200: the status code the caller of a finished
\* statistics request sees
StatsStatusCode(rec) ==
    IF rec.exc = None THEN HTTP_200_OK
    ELSE IF rec.exc = "ValueError" THEN HTTP_404_NOT_FOUND
    ELSE HTTP_500_INTERNAL_SERVER_ERROR

(***************************************************************************)
(* SpecAbsent: interleaved sync and statistics requests while user         *)
(* documents are deleted by another client of the store                    *)
(***************************************************************************)
AbsentSyncCall(r) ==
    \E user_id \in Users, date \in DateInputs :
        SyncStart(r, user_id, 5432, date, "healthkit", "dev1", NoDoc)

NextAbsent ==
    \/ \E user_id \in Users : DeleteUser(user_id)
    \/ \E r \in 1..MaxConcurrent :
        \/ AbsentSyncCall(r)
        \/ GetStepLog(r)
        \/ DupGetUser(r)
        \/ SaveStepLog(r)
        \/ IncrementUserPoints(r)
        \/ GetUser(r)
        \/ IncrementClubPoints(r)
        \/ GetUpdatedUser(r)
        \/ GetClub(r)
        \/ StatsCall(r)
        \/ StatsGetUser(r)
        \/ StatsGetHistory(r)

SpecAbsent == Init /\ [][NextAbsent]_vars

(***************************************************************************)
(* SpecAgg: one request at a time: syncs, some of them cut off, and        *)
(* statistics requests                                                     *)
(***************************************************************************)
AggSyncCall(r) ==
    /\ Quiet
    /\ \E step_count \in SeqStepInputs, date \in DateInputs :
           SyncStart(r, "u1", step_count, date, "healthkit", "dev1", Snapshot)

AggStatsCall(r) ==
    /\ Quiet
    /\ \E user_id \in Users : StatsStart(r, user_id, Snapshot)

NextAgg ==
    \E r \in Requests :
        \/ AggSyncCall(r)
        \/ GetStepLog(r)
        \/ DupGetUser(r)
        \/ SaveStepLog(r)
        \/ IncrementUserPoints(r)
        \/ GetUser(r)
        \/ IncrementClubPoints(r)
        \/ GetUpdatedUser(r)
        \/ GetClub(r)
        \/ Cancel(r)
        \/ AggStatsCall(r)
        \/ StatsGetUser(r)
        \/ StatsGetHistory(r)

SpecAgg == Init /\ [][NextAgg]_vars

(***************************************************************************)
(* SpecHist: one request at a time: syncs and history requests             *)
(***************************************************************************)
\* 2024-02-22 with its last digit written as a fullwidth digit
D_2024_02_22_FW == <<"2", "0", "2", "4", "-", "0", "2", "-", "2", "FW2">>

HistDateInputs == {D_2024_02_27, D_2024_02_28, D_2024_02_22_FW}

HistSyncCall(r) ==
    /\ Quiet
    /\ \E user_id \in Users, date \in HistDateInputs :
           SyncStart(r, user_id, 5432, date, "healthkit", "dev1", Snapshot)

HistHistoryCall(r) ==
    /\ Quiet
    /\ \E user_id \in Users, days \in {1, 2, 365} :
           HistoryStart(r, user_id, days, Snapshot)

NextHist ==
    \E r \in Requests :
        \/ HistSyncCall(r)
        \/ GetStepLog(r)
        \/ DupGetUser(r)
        \/ SaveStepLog(r)
        \/ IncrementUserPoints(r)
        \/ GetUser(r)
        \/ IncrementClubPoints(r)
        \/ GetUpdatedUser(r)
        \/ GetClub(r)
        \/ HistHistoryCall(r)
        \/ GetUserHistory(r)

SpecHist == Init /\ [][NextHist]_vars

(***************************************************************************)
(* SpecMessage: PointCalculator.calculate_club_contribution applied to the *)
(* points of a sync and a club total                                       *)
(***************************************************************************)
InitMessage ==
    /\ users = [u \in Users |->
                 [club_id |-> IF u = "u1" THEN "urawa-reds" ELSE None,
                  total_points |-> 0, total_steps |-> 0,
                  updated_at |-> ToOrdinal(2024, 2, 28)]]
    /\ clubs = [c \in Clubs |-> [total_points |-> 0]]
    /\ steps = {}
    /\ today = ToOrdinal(2024, 2, 28)
    /\ ticks = 0
    /\ \E points \in 0..(MAX_STEPS \div STEPS_PER_POINT),
          club_total_points \in {0, 7, MAX_STEPS} :
           req = [r \in Requests |->
                    IF r = 1
                    THEN [IdleRequest EXCEPT
                            !.op = "calculate_club_contribution",
                            !.points = points,
                            !.total_points = club_total_points]
                    ELSE IdleRequest]

\* point_calculator.py lines 97-116
CalculateClubContribution(r) ==
    /\ req[r].op = "calculate_club_contribution"
    /\ req[r].pc = "idle"
    /\ req' = [req EXCEPT ![r] = [@ EXCEPT !.pc = "done",
                  !.result = [club_contribution |->
                      calculate_club_contribution(req[r].points,
                                                  req[r].total_points)]]]
    /\ UNCHANGED <<users, clubs, steps, today, ticks>>

NextMessage == \E r \in Requests : CalculateClubContribution(r)

SpecMessage == InitMessage /\ [][NextMessage]_vars

(***************************************************************************)
(* Authentication (app/dependencies.py) and SpecAuth: one request at a     *)
(* time, each arriving with or without a bearer credential                 *)
(***************************************************************************)
\* the Authorization header of a request: absent, or a bearer token
Credentials == {None, "token-u1", "token-u2", "garbage"}

\* dependencies.py lines 150-172: the subject of a token that verifies
TokenSubject(token) ==
    CASE token = "token-u1" -> "u1"
      [] token = "token-u2" -> "u2"
      [] OTHER -> None

\* mutant: a request without credential is served as user u1
get_current_user_default_user(credentials, U) ==
    LET user_id == IF credentials = None THEN "u1" ELSE TokenSubject(credentials)
    IN  IF user_id = None
        THEN [user_id |-> None, detail |-> "Not authenticated"]
        ELSE IF get_user(U, user_id) = NoDoc
        THEN [user_id |-> None, detail |-> "User not found"]
        ELSE [user_id |-> user_id, detail |-> None]

\* dependencies.py lines 21 and 133-202: HTTPBearer() refuses a request
\* without bearer credential; get_current_user resolves the token to a user
\* id and reads the user.  user_id is None when HTTPException is raised.
get_current_user(credentials, U) ==
    IF credentials = None
    THEN [user_id |-> None, detail |-> "Not authenticated"]
    ELSE LET user_id == TokenSubject(credentials)
         IN  IF user_id = None
             THEN [user_id |-> None, detail |-> "Not authenticated"]
             ELSE IF get_user(U, user_id) = NoDoc
             THEN [user_id |-> None, detail |-> "User not found"]
             ELSE [user_id |-> user_id, detail |-> None]

\* history: the store as the request finds it, its credential, and a user id
\* that the client put into the request
AuthSnapshot(credentials, client_user_id) ==
    [users |-> users, clubs |-> clubs, steps |-> steps, today |-> today,
     credentials |-> credentials, client_user_id |-> client_user_id]

\* the dependency raised: the endpoint function is not called
Unauthorized(r, op, current_user, pre) ==
    /\ MayStart(r)
    /\ req' = [req EXCEPT ![r] =
                  Raise([IdleRequest EXCEPT !.op = op, !.pre = pre],
                        "HTTPException", current_user.detail)]
    /\ UNCHANGED <<users, clubs, steps, today, ticks>>

\* steps.py lines 35-71
AuthSyncCall(r) ==
    /\ Quiet
    /\ \E credentials \in Credentials, client_user_id \in Users,
          date \in {D_2024_02_27} :
           LET current_user == get_current_user(credentials, users)
               pre == AuthSnapshot(credentials, client_user_id)
           IN  IF current_user.user_id = None
               THEN Unauthorized(r, "sync", current_user, pre)
               ELSE SyncStart(r, current_user.user_id, 5432, date,
                              "healthkit", "dev1", pre)

\* steps.py lines 100-123
AuthHistoryCall(r) ==
    /\ Quiet
    /\ \E credentials \in Credentials, client_user_id \in Users :
           LET current_user == get_current_user(credentials, users)
               pre == AuthSnapshot(credentials, client_user_id)
           IN  IF current_user.user_id = None
               THEN Unauthorized(r, "history", current_user, pre)
               ELSE HistoryStart(r, current_user.user_id, 365, pre)

\* steps.py lines 158-186
AuthStatsCall(r) ==
    /\ Quiet
    /\ \E credentials \in Credentials, client_user_id \in Users :
           LET current_user == get_current_user(credentials, users)
               pre == AuthSnapshot(credentials, client_user_id)
           IN  IF current_user.user_id = None
               THEN Unauthorized(r, "stats", current_user, pre)
               ELSE StatsStart(r, current_user.user_id, pre)

NextAuth ==
    \E r \in Requests :
        \/ AuthSyncCall(r)
        \/ GetStepLog(r)
        \/ DupGetUser(r)
        \/ SaveStepLog(r)
        \/ IncrementUserPoints(r)
        \/ GetUser(r)
        \/ IncrementClubPoints(r)
        \/ GetUpdatedUser(r)
        \/ GetClub(r)
        \/ AuthHistoryCall(r)
        \/ GetUserHistory(r)
        \/ AuthStatsCall(r)
        \/ StatsGetUser(r)
        \/ StatsGetHistory(r)

SpecAuth == Init /\ [][NextAuth]_vars

(***************************************************************************)
(* SpecLedger: sync and join_club requests whose round-trips interleave in *)
(* any order; a sync may fail with a storage error or be cut off anywhere  *)
(***************************************************************************)
LedgerSyncCall(r) ==
    \E user_id \in Users, date \in DateInputs :
        SyncStart(r, user_id, 5432, date, "healthkit", "dev1", NoDoc)

NextLedger ==
    \E r \in 1..MaxConcurrent :
        \/ LedgerSyncCall(r)
        \/ GetStepLog(r)
        \/ DupGetUser(r)
        \/ SaveStepLog(r)
        \/ IncrementUserPoints(r)
        \/ GetUser(r)
        \/ IncrementClubPoints(r)
        \/ GetUpdatedUser(r)
        \/ GetClub(r)
        \/ JoinCall(r)
        \/ JoinGetClub(r)
        \/ JoinUpdateUser(r)
        \/ \E written \in BOOLEAN : SaveStepLogFails(r, written)
        \/ \E written \in BOOLEAN : IncrementUserPointsFails(r, written)
        \/ \E written \in BOOLEAN : IncrementClubPointsFails(r, written)
        \/ Cancel(r)

SpecLedger == Init /\ [][NextLedger]_vars

(***************************************************************************)
(* SpecOrphan: syncs of one user for one date, with any interleaving,      *)
(* while the record of the user may be deleted at any moment               *)
(***************************************************************************)
OrphanSyncCall(r) ==
    \E step_count \in StepInputs :
        SyncStart(r, "u1", step_count, D_2024_02_27, "healthkit", "dev1", NoDoc)

NextOrphan ==
    \/ DeleteUser("u1")
    \/ \E r \in 1..MaxConcurrent :
        \/ OrphanSyncCall(r)
        \/ GetStepLog(r)
        \/ DupGetUser(r)
        \/ SaveStepLog(r)
        \/ IncrementUserPoints(r)
        \/ GetUser(r)
        \/ IncrementClubPoints(r)
        \/ GetUpdatedUser(r)
        \/ GetClub(r)

SpecOrphan == Init /\ [][NextOrphan]_vars

(***************************************************************************)
(* Properties                                                              *)
(***************************************************************************)
\* a sync request that has written its step log (it found none before)
WroteLog(r) ==
    /\ req[r].op = "sync"
    /\ req[r].existing_log = NoDoc
    /\ req[r].pc \in {"increment_user_points", "get_user", "increment_club_points",
                      "get_updated_user", "get_club", "done"}
    /\ req[r].detail \notin {"Invalid steps count", "Invalid date format",
                             "Date cannot be in the future"}

SameKey(r1, r2) ==
    /\ req[r1].op = "sync"
    /\ req[r2].op = "sync"
    /\ req[r1].user_id = req[r2].user_id
    /\ req[r1].date = req[r2].date

\* a sync request that has returned a result
SyncDone(r) ==
    /\ req[r].op = "sync"
    /\ req[r].pc = "done"
    /\ req[r].exc = None

FreshDone(r) == SyncDone(r) /\ ~req[r].result.is_duplicate

\* no request was issued after request r
NothingAfter(r) == \A q \in Requests : q > r => req[q].pc = "idle"

RECURSIVE SumPoints(_)
SumPoints(docs) ==
    IF docs = {} THEN 0
    ELSE LET d == CHOOSE x \in docs : TRUE
         IN  d.points + SumPoints(docs \ {d})

LogsOf(S, user_id) == {d \in S : d.user_id = user_id}

\* C1: in SpecSeq, when sync is called twice for the same (user, date), the
\* later call carrying any steps, source and signature: the later call is a
\* duplicate returning the same pointsEarned as the earlier one, it leaves
\* the user's total as it found it and reports that total, and when it
\* directly follows a fresh first call the total it finds is the total before
\* the first call plus the first call's points.
C1_Idempotent ==
    \A i \in Requests, j \in Requests :
        (i < j /\ SameKey(i, j) /\ SyncDone(i) /\ SyncDone(j)) =>
            LET u == req[j].user_id
            IN  /\ req[j].result.is_duplicate
                /\ req[j].result.points_earned = req[i].result.points_earned
                /\ req[j].result.total_points = req[j].pre.users[u].total_points
                /\ NothingAfter(j) =>
                       users[u].total_points = req[j].pre.users[u].total_points
                /\ (j = i + 1 /\ ~req[i].result.is_duplicate) =>
                       req[j].pre.users[u].total_points
                           = req[i].pre.users[u].total_points
                               + req[i].result.points_earned

\* a fresh sync worth points followed at once by a sync of the same key with
\* other steps, source and signature
C1_Witness ==
    \E i \in Requests :
        /\ i + 1 \in Requests
        /\ SameKey(i, i + 1)
        /\ FreshDone(i)
        /\ SyncDone(i + 1)
        /\ req[i].result.points_earned > 0
        /\ req[i].steps # req[i + 1].steps
        /\ req[i].source # req[i + 1].source
        /\ req[i].device_signature # req[i + 1].device_signature

\* C2: in Spec, of two completed sync calls for the same (user, date) at most
\* one is fresh, and once no request is in flight every user's total equals
\* the points of the user's StepLogs (each day credited once).
C2_ExactlyOnce ==
    /\ \A r1 \in Requests, r2 \in Requests :
           (r1 # r2 /\ SameKey(r1, r2) /\ SyncDone(r1) /\ SyncDone(r2)) =>
               (req[r1].result.is_duplicate \/ req[r2].result.is_duplicate)
    /\ (\A q \in Requests : req[q].pc \in {"idle", "done"}) =>
           \A u \in Users :
               users[u].total_points = SumPoints(LogsOf(steps, u))

\* C3: in SpecDistinct (no two calls for one (user, date) overlap, no call
\* fails), once all calls have completed every user's total points equals
\* the sum of the points of that user's StepLogs.
C3_Ledger ==
    (\A q \in Requests : req[q].pc \in {"idle", "done"} /\ req[q].exc = None) =>
        \A u \in Users : users[u].total_points = SumPoints(LogsOf(steps, u))

\* two syncs of one user for different dates overlapped in time and both
\* credited points
C3_Witness ==
    \E r1 \in Requests, r2 \in Requests :
        /\ FreshDone(r1)
        /\ FreshDone(r2)
        /\ r1 \in req[r2].pre.in_flight
        /\ req[r1].user_id = req[r2].user_id
        /\ req[r1].date # req[r2].date
        /\ req[r1].points > 0
        /\ req[r2].points > 0

(* Reference calendar for the claims about dates, written independently of  *)
(* the validators: the value of a digit, the length of a month.            *)
RefDigits == <<"0", "1", "2", "3", "4", "5", "6", "7", "8", "9">>
RefVal(c) ==
    IF c = "FW2" THEN 2 ELSE (CHOOSE i \in 1..10 : RefDigits[i] = c) - 1

RefYear(s) == 1000 * RefVal(s[1]) + 100 * RefVal(s[2]) + 10 * RefVal(s[3])
                + RefVal(s[4])
RefMonth(s) == 10 * RefVal(s[6]) + RefVal(s[7])
RefDay(s) == 10 * RefVal(s[9]) + RefVal(s[10])

RefLeapYear(y) == IF y % 100 = 0 THEN y % 400 = 0 ELSE y % 4 = 0

RefMonthLength(y, m) ==
    CASE m \in {1, 3, 5, 7, 8, 10, 12} -> 31
      [] m \in {4, 6, 9, 11} -> 30
      [] m = 2 -> IF RefLeapYear(y) THEN 29 ELSE 28

\* s has the layout DDDD-DD-DD with every D in the set digits, and names an
\* existing day of the calendar (years 0001 to 9999)
IsCalendarDate(s, digits) ==
    /\ Len(s) = 10
    /\ s[5] = "-"
    /\ s[8] = "-"
    /\ \A i \in {1, 2, 3, 4, 6, 7, 9, 10} : s[i] \in digits
    /\ RefYear(s) >= 1
    /\ RefMonth(s) \in 1..12
    /\ RefDay(s) >= 1
    /\ RefDay(s) <= RefMonthLength(RefYear(s), RefMonth(s))

\* the calendar date s is after the day with ordinal now
IsAfter(s, now) == ToOrdinal(RefYear(s), RefMonth(s), RefDay(s)) > now

ValidationDetails ==
    {"Invalid steps count", "Invalid date format", "Date cannot be in the future"}

\* decimal digits: the ASCII digits and the digits of other scripts
DecimalDigits == AsciiDigits \cup {"FW2"}

C5_DateAcceptance ==
    \A r \in Requests :
        (req[r].op = "sync" /\ req[r].steps >= 0 /\ req[r].steps <= 100000) =>
            ((req[r].detail \notin ValidationDetails)
                <=> (/\ IsCalendarDate(req[r].date, AsciiDigits)
                     /\ ~IsAfter(req[r].date, req[r].pre.today)))

\* C6: in Spec, a StepLog that exists is never deleted and its steps and
\* points never change, in any step of any interleaving.
C6_StepLogImmutable ==
    [][\A d \in steps :
          \E e \in steps' :
              /\ e.user_id = d.user_id
              /\ e.date = d.date
              /\ e.steps = d.steps
              /\ e.points = d.points]_vars

\* C7: in every reachable state, whatever interleaving of sync calls has
\* run, the steps collection holds at most one StepLog per (user, date).
C7_StepLogUnique ==
    \A d1 \in steps, d2 \in steps :
        (d1.user_id = d2.user_id /\ d1.date = d2.date) => d1 = d2

\* two interleaved syncs of one (user, date) with different step counts have
\* both written their log
C7_Witness ==
    \E r1 \in Requests, r2 \in Requests :
        /\ r1 # r2
        /\ SameKey(r1, r2)
        /\ WroteLog(r1)
        /\ WroteLog(r2)
        /\ req[r1].steps # req[r2].steps

\* C8: in SpecPipe (sync, join, history and stats requests in any
\* interleaving), no step decreases a user's or a club's total points.
C8_MonotonicTotals ==
    [][/\ \A u \in Users : users'[u].total_points >= users[u].total_points
       /\ \A c \in Clubs : clubs'[c].total_points >= clubs[c].total_points]_vars

\* a stats request has reported a total that a sync credited, and a club
\* holds credited points
C8_Witness ==
    /\ \E r \in Requests :
           /\ req[r].op = "stats"
           /\ req[r].pc = "done"
           /\ req[r].exc = None
           /\ req[r].result.total_points > 0
    /\ \E c \in Clubs : clubs[c].total_points > 0

\* the points that completed fresh syncs brought to club c: each sync counts
\* for the club its user was affiliated with when the sync began
RECURSIVE CreditedTo(_, _)
CreditedTo(c, n) ==
    IF n = 0 THEN 0
    ELSE CreditedTo(c, n - 1)
         + (IF FreshDone(n) /\ req[n].pre.users[req[n].user_id].club_id = c
            THEN req[n].result.points_earned ELSE 0)

\* C9: in SpecSeq (syncs and join_club calls one after the other), a fresh
\* sync adds its points to the club the user was affiliated with at that
\* sync and to no other club, join_club changes the affiliation and no
\* club's total, so each club's total is the sum of the points of the syncs
\* made while their user was affiliated with it.
C9_CreditCurrentAffiliation ==
    /\ Quiet => \A c \in Clubs : clubs[c].total_points = CreditedTo(c, MaxRequests)
    /\ \A r \in Requests :
           (req[r].pc = "done" /\ req[r].exc = None /\ NothingAfter(r)) =>
               /\ req[r].op = "join" =>
                      /\ clubs = req[r].pre.clubs
                      /\ users[req[r].user_id].club_id = req[r].join_club_id
               /\ FreshDone(r) =>
                      \A c \in Clubs :
                          clubs[c].total_points =
                              req[r].pre.clubs[c].total_points
                                + (IF req[r].pre.users[req[r].user_id].club_id = c
                                   THEN req[r].result.points_earned ELSE 0)

\* a user synced, changed club, and synced again: the first points are on
\* the old club, the second on the new one
C9_Witness ==
    \E r \in Requests :
        /\ r + 2 \in Requests
        /\ FreshDone(r)
        /\ req[r + 1].op = "join"
        /\ req[r + 1].pc = "done"
        /\ FreshDone(r + 2)
        /\ req[r].user_id = req[r + 1].user_id
        /\ req[r].user_id = req[r + 2].user_id
        /\ req[r].pre.users[req[r].user_id].club_id \in Clubs
        /\ req[r + 1].join_club_id # req[r].pre.users[req[r].user_id].club_id
        /\ req[r].result.points_earned > 0
        /\ req[r + 2].result.points_earned > 0
        /\ clubs[req[r].pre.users[req[r].user_id].club_id].total_points
               = req[r].result.points_earned
        /\ clubs[req[r + 1].join_club_id].total_points
               = req[r + 2].result.points_earned

\* C10: in SpecSeq, a sync for a (user, date) without StepLog returns
\* pointsEarned = floor(steps / 1000), totalPoints = the user's total before
\* the call plus pointsEarned and a clear duplicate flag; a StepLog with the
\* given steps and pointsEarned is stored, and the club the user is
\* affiliated with has grown by exactly pointsEarned.
C10_FreshSyncResult ==
    \A r \in Requests :
        (/\ req[r].op = "sync"
         /\ req[r].pc = "done"
         /\ ~\E d \in req[r].pre.steps :
                d.user_id = req[r].user_id /\ d.date = req[r].date
         /\ req[r].pre.users[req[r].user_id] # NoDoc) =>
            LET u == req[r].user_id
                club == req[r].pre.users[u].club_id
            IN  /\ req[r].exc = None
                /\ req[r].result.points_earned * 1000 <= req[r].steps
                /\ req[r].steps < (req[r].result.points_earned + 1) * 1000
                /\ req[r].result.total_points
                       = req[r].pre.users[u].total_points
                           + req[r].result.points_earned
                /\ ~req[r].result.is_duplicate
                /\ \E d \in steps :
                       /\ d.user_id = u
                       /\ d.date = req[r].date
                       /\ d.steps = req[r].steps
                       /\ d.points = req[r].result.points_earned
                /\ (NothingAfter(r) /\ club # None) =>
                       clubs[club].total_points
                           = req[r].pre.clubs[club].total_points
                               + req[r].result.points_earned

\* a fresh sync of 5432 steps by a user with a club and a total above zero
C10_Witness ==
    \E r \in Requests :
        /\ FreshDone(r)
        /\ NothingAfter(r)
        /\ req[r].steps = 5432
        /\ req[r].result.points_earned = 5
        /\ req[r].pre.users[req[r].user_id].total_points > 0
        /\ req[r].pre.users[req[r].user_id].club_id # None

\* the request is on the duplicate branch: it is about to read a StepLog
\* that exists, or it has read one
OnDuplicateBranch(r) ==
    /\ req[r].op = "sync"
    /\ \/ req[r].pc = "dup_get_user"
       \/ /\ req[r].pc = "get_step_log"
          /\ get_step_log(steps, req[r].user_id, req[r].date) # NoDoc

\* C11: in Spec, every step taken by a sync request that finds a StepLog for
\* its (user, date) leaves the steps, users and clubs collections unchanged,
\* whatever step count the request carries; the request ends as a duplicate
\* whose pointsEarned is the stored log's points and whose totalPoints is the
\* user's total in the store at the moment the request reads the user.
C11_DuplicateIsPureRead ==
    [][\A r \in Requests :
          (OnDuplicateBranch(r) /\ req'[r] # req[r]) =>
              /\ steps' = steps
              /\ users' = users
              /\ clubs' = clubs
              /\ req[r].pc = "get_step_log" =>
                     /\ req'[r].pc = "dup_get_user"
                     /\ req'[r].existing_log
                            = get_step_log(steps, req[r].user_id, req[r].date)
              /\ req[r].pc = "dup_get_user" =>
                     /\ req'[r].pc = "done"
                     /\ req'[r].exc = None
                     /\ req'[r].result.is_duplicate
                     /\ req'[r].result.points_earned = req[r].existing_log.points
                     /\ req'[r].result.total_points
                            = users[req[r].user_id].total_points]_vars

\* a repeated sync carrying another step count than the stored log has
\* returned, and the log still holds the steps and points first stored
C11_Witness ==
    \E r \in Requests :
        /\ SyncDone(r)
        /\ req[r].result.is_duplicate
        /\ req[r].steps # req[r].existing_log.steps
        /\ req[r].existing_log.points > 0
        /\ req[r].existing_log \in steps
        /\ users[req[r].user_id].total_points = req[r].existing_log.points

\* the store as request r left it, in a specification that runs one request
\* at a time: what the next request found, or the present store
After(r) ==
    IF r + 1 \in Requests /\ req[r + 1].pc # "idle"
    THEN req[r + 1].pre ELSE Snapshot

\* what request r added to the total of its user, and to the total of club c
UserCredit(r) ==
    After(r).users[req[r].user_id].total_points
        - req[r].pre.users[req[r].user_id].total_points
ClubCredit(r, c) ==
    After(r).clubs[c].total_points - req[r].pre.clubs[c].total_points

StorageFailed(r) ==
    req[r].op = "sync" /\ req[r].pc = "done" /\ req[r].exc = "GoogleAPICallError"

\* C12: in SpecFail, a sync that fails with a storage error at its log write,
\* user increment or club increment is answered with status 500 (Internal),
\* and of all the sync calls made for one (user, date), failed or retried,
\* at most one adds points to the user's total and at most one adds points
\* to a club's total; what a call adds is nothing or its points.
C12_RetryNeverDoubleCredits ==
    /\ \A r \in Requests :
           StorageFailed(r) =>
               StatusCode(req[r]) = HTTP_500_INTERNAL_SERVER_ERROR
    /\ \A r \in Requests :
           req[r].op = "sync" =>
               /\ UserCredit(r) \in {0, req[r].steps \div 1000}
               /\ \A c \in Clubs : ClubCredit(r, c) \in {0, req[r].steps \div 1000}
    /\ \A r1 \in Requests, r2 \in Requests :
           (r1 < r2 /\ SameKey(r1, r2)) =>
               /\ ~(UserCredit(r1) > 0 /\ UserCredit(r2) > 0)
               /\ \A c1 \in Clubs, c2 \in Clubs :
                      ~(ClubCredit(r1, c1) > 0 /\ ClubCredit(r2, c2) > 0)

\* a sync failed with a storage error after its user increment reached the
\* store, and two retries of the same (user, date) have returned
C12_Witness ==
    \E r \in Requests :
        /\ r + 2 \in Requests
        /\ StorageFailed(r)
        /\ UserCredit(r) > 0
        /\ SameKey(r, r + 1) /\ SyncDone(r + 1)
        /\ SameKey(r, r + 2) /\ SyncDone(r + 2)
        /\ users[req[r].user_id].total_points = UserCredit(r)

\* C13: in SpecFail, when a sync was cut off after its log write and the same
\* sync is run again, the second run is a duplicate that changes nothing; and
\* whenever no sync is in flight every user's total includes the points of
\* each of the user's StepLogs (so that only a club increment can be missing).
C13_OnlyClubCreditCanBeLost ==
    /\ \A r \in Requests :
           (/\ SyncDone(r)
            /\ get_step_log(req[r].pre.steps, req[r].user_id, req[r].date) # NoDoc) =>
               /\ req[r].result.is_duplicate
               /\ After(r).users = req[r].pre.users
               /\ After(r).clubs = req[r].pre.clubs
               /\ After(r).steps = req[r].pre.steps
    /\ Quiet =>
           \A u \in Users : users[u].total_points >= SumPoints(LogsOf(steps, u))

\* the sync found no user record when it read the user after its log write
\* and its user increment
UserMissingAfterWrites(r) ==
    /\ req[r].op = "sync"
    /\ req[r].pc = "done"
    /\ req[r].detail = "User not found"

\* C14: in SpecGone, a sync that finds no user record after its log write and
\* user increment fails with an error of its own category, which is neither
\* the category of invalid input (ValueError, status 400) nor the category
\* of internal errors (status 500), and the StepLog it wrote is still stored.
C14_UserMissingIsNotFound ==
    \A r \in Requests :
        UserMissingAfterWrites(r) =>
            /\ req[r].exc # None
            /\ req[r].exc # "ValueError"
            /\ StatusCode(req[r]) # HTTP_400_BAD_REQUEST
            /\ StatusCode(req[r]) # HTTP_500_INTERNAL_SERVER_ERROR
            /\ get_step_log(steps, req[r].user_id, req[r].date) # NoDoc

\* C15: in Spec, the response body of every successful sync has is_verified
\* true and has an is_duplicate field, which is true exactly when the request
\* found a StepLog for its (user, date) at its duplicate check.
C15_SyncResponseShape ==
    \A r \in Requests :
        SyncDone(r) =>
            LET response == StepSyncResponse(req[r].result, today)
            IN  /\ response.is_verified = TRUE
                /\ "is_duplicate" \in DOMAIN response
                /\ response.is_duplicate = (req[r].existing_log # NoDoc)

\* the sum of the points earned by the fresh syncs among the requests rs
RECURSIVE FreshPoints(_)
FreshPoints(rs) ==
    IF rs = {} THEN 0
    ELSE LET r == CHOOSE x \in rs : TRUE
         IN  (IF FreshDone(r) THEN req[r].result.points_earned ELSE 0)
                 + FreshPoints(rs \ {r})

\* C16: in SpecClub, where the users are affiliated with one club and their
\* sync requests interleave, once all requests have completed the club's
\* total points equals its initial total (0) plus the sum of the points of
\* every fresh sync, and the other club's total is unchanged.
C16_ClubCreditsCommute ==
    (\A q \in Requests : req[q].pc \in {"idle", "done"}) =>
        /\ clubs["urawa-reds"].total_points = FreshPoints(Requests)
        /\ clubs["fc-tokyo"].total_points = 0

\* fresh syncs of two different users of the club overlapped in time, each
\* worth points, and both have completed
C16_Witness ==
    \E r1 \in Requests, r2 \in Requests :
        /\ FreshDone(r1)
        /\ FreshDone(r2)
        /\ r1 \in req[r2].pre.in_flight
        /\ req[r1].user_id # req[r2].user_id
        /\ req[r1].points > 0
        /\ req[r2].points > 0
        /\ clubs["urawa-reds"].total_points = req[r1].points + req[r2].points

\* C17: in SpecPoints, for a step count s with 0 <= s <= 100000 the result p
\* of calculate_points is floor(s / 1000), the integer with
\* 1000 * p <= s < 1000 * (p + 1), so 0 for s < 1000 and 5 for s = 5432; for
\* a negative s it is 0; it is never negative.
C17_PointConversion ==
    \A r \in Requests :
        (req[r].op = "calculate_points" /\ req[r].pc = "done") =>
            LET s == req[r].steps
                p == req[r].points
            IN  /\ p >= 0
                /\ (0 <= s /\ s <= 100000) =>
                       (1000 * p <= s /\ s < 1000 * (p + 1))
                /\ (0 <= s /\ s < 1000) => p = 0
                /\ s = 5432 => p = 5
                /\ s < 0 => p = 0

\* calculate_points has been applied to 5432 steps
C17_Witness ==
    \E r \in Requests :
        /\ req[r].op = "calculate_points"
        /\ req[r].pc = "done"
        /\ req[r].steps = 5432
        /\ req[r].points = 5

(* Reference for the streak claims: a day is its position in StreakDays,   *)
(* consecutive positions are consecutive calendar days, today is the last. *)
RefDayIndex(date) == CHOOSE i \in 1..Len(StreakDays) : StreakDays[i] = date

RefDaysOf(logs) == {RefDayIndex(d.date) : d \in logs}

\* the largest k such that today and the k - 1 days before it are all in days
RefCurrentStreak(days) ==
    LET n == Len(StreakDays)
    IN  CHOOSE k \in 0..n :
            /\ \A i \in 0..(k - 1) : (n - i) \in days
            /\ (n - k) \notin days

\* the length of the longest run of consecutive days in days
RefLongestRun(days) ==
    LET n == Len(StreakDays)
        HasRun(k) == \E a \in 1..n : \A i \in a..(a + k - 1) : i \in days
    IN  CHOOSE k \in 0..n : HasRun(k) /\ ~HasRun(k + 1)

StatsDone(r) ==
    req[r].op = "stats" /\ req[r].pc = "done" /\ req[r].exc = None

\* C18: in SpecStats, where the history of a user holds distinct dates newest
\* first, current_streak is the largest k such that logs exist for today and
\* each of the k - 1 days before; it is 0 when no log is dated today, and 3
\* for logs on today, yesterday, the day before, a gap, and an earlier log.
C18_CurrentStreakAnchorsAtToday ==
    \A r \in Requests :
        StatsDone(r) =>
            LET days == RefDaysOf(LogsOf(steps, req[r].user_id))
                n == Len(StreakDays)
            IN  /\ req[r].result.current_streak = RefCurrentStreak(days)
                /\ n \notin days => req[r].result.current_streak = 0
                /\ ({n, n - 1, n - 2} \subseteq days /\ (n - 3) \notin days) =>
                       req[r].result.current_streak = 3

\* statistics were computed for logs on today, yesterday, the day before,
\* then a gap, then an earlier log
C18_Witness ==
    \E r \in Requests :
        /\ StatsDone(r)
        /\ RefDaysOf(LogsOf(steps, req[r].user_id)) = {8, 7, 6, 4}
        /\ req[r].result.current_streak = 3

\* C19: in SpecStats, for the logs of a user given in any order,
\* longest_streak is the length of the longest run of consecutive calendar
\* dates among them: 0 without logs, at least 1 with a log, and 5 for five
\* consecutive days, a break, then two consecutive days.
C19_LongestStreak ==
    /\ \A r \in Requests :
           (req[r].op = "longest_streak" /\ req[r].pc = "done") =>
               LET history == req[r].result.history
                   days == RefDaysOf({history[i] : i \in DOMAIN history})
                   longest == req[r].result.longest_streak
               IN  /\ longest = RefLongestRun(days)
                   /\ days = {} => longest = 0
                   /\ days # {} => longest >= 1
                   /\ days = {1, 2, 3, 4, 5, 7, 8} => longest = 5
    /\ \A r \in Requests :
           StatsDone(r) =>
               req[r].result.longest_streak
                   = RefLongestRun(RefDaysOf(LogsOf(steps, req[r].user_id)))

\* the longest streak was computed for five consecutive days, a break and
\* two consecutive days, given oldest first
C19_Witness ==
    \E r \in Requests :
        /\ req[r].op = "longest_streak"
        /\ req[r].pc = "done"
        /\ Len(req[r].result.history) = 7
        /\ req[r].result.history[1].date = D_2024_02_24
        /\ req[r].result.history[6].date = D_2024_03_01
        /\ req[r].result.longest_streak = 5

\* C20: in SpecStats, get_user_stats for a user whose record exists and who
\* has no StepLog returns, with active days, total steps, average daily
\* steps, maximum daily steps, current streak and longest streak all 0 and
\* total points equal to the total stored in the user's record.
C20_StatsWithZeroLogs ==
    \A r \in Requests :
        (/\ req[r].op = "stats"
         /\ req[r].pc = "done"
         /\ users[req[r].user_id] # NoDoc
         /\ LogsOf(steps, req[r].user_id) = {}) =>
            /\ req[r].exc = None
            /\ req[r].result.active_days = 0
            /\ req[r].result.total_steps = 0
            /\ req[r].result.average_daily_steps = 0
            /\ req[r].result.max_daily_steps = 0
            /\ req[r].result.current_streak = 0
            /\ req[r].result.longest_streak = 0
            /\ req[r].result.total_points = users[req[r].user_id].total_points

\* statistics were returned for a user without logs whose stored total is 7
C20_Witness ==
    \E r \in Requests :
        /\ StatsDone(r)
        /\ LogsOf(steps, req[r].user_id) = {}
        /\ users[req[r].user_id].total_points = 7
        /\ req[r].result.total_points = 7

\* C21: in SpecAbsent, a statistics request that reads the user and finds no
\* record ends there with ValueError, which the endpoint answers with status
\* 404 (NotFound), and returns no statistics, whether or not StepLogs exist
\* for the user id; no step of a statistics request changes the store.
C21_StatsAbsentUserIsNotFound ==
    [][\A r \in Requests :
          (req[r].op = "stats" /\ req'[r] # req[r]) =>
              /\ users' = users
              /\ clubs' = clubs
              /\ steps' = steps
              /\ (req[r].pc = "stats_get_user" /\ users[req[r].user_id] = NoDoc) =>
                     /\ req'[r].pc = "done"
                     /\ req'[r].exc = "ValueError"
                     /\ req'[r].result = NoDoc
                     /\ StatsStatusCode(req'[r]) = HTTP_404_NOT_FOUND]_vars

\* a statistics request failed for a user id without record while a StepLog
\* of that id is stored
C21_Witness ==
    \E r \in Requests :
        /\ req[r].op = "stats"
        /\ req[r].pc = "done"
        /\ req[r].detail = "User not found"
        /\ users[req[r].user_id] = NoDoc
        /\ LogsOf(steps, req[r].user_id) # {}

\* reference aggregates over a set of logs
RECURSIVE RefSumSteps(_)
RefSumSteps(logs) ==
    IF logs = {} THEN 0
    ELSE LET d == CHOOSE x \in logs : TRUE
         IN  d.steps + RefSumSteps(logs \ {d})

RefMaxSteps(logs) == CHOOSE m \in {d.steps : d \in logs} : \A d \in logs : d.steps <= m

\* C22: in SpecAgg, statistics for a user with at least one StepLog (fewer
\* than 365 logs, so all are fetched) report total_steps = the sum of the
\* steps of the user's logs, active_days = their number, max_daily_steps =
\* the largest steps among them, and total_points = the total stored in the
\* user record, also when that differs from the sum of the logs' points.
C22_StatsAggregates ==
    \A r \in Requests :
        (StatsDone(r) /\ LogsOf(req[r].pre.steps, req[r].user_id) # {}) =>
            LET logs == LogsOf(req[r].pre.steps, req[r].user_id)
            IN  /\ req[r].result.total_steps = RefSumSteps(logs)
                /\ req[r].result.active_days = Cardinality(logs)
                /\ req[r].result.max_daily_steps = RefMaxSteps(logs)
                /\ req[r].result.total_points
                       = req[r].pre.users[req[r].user_id].total_points

\* statistics were returned for a user with two logs of different step
\* counts whose stored total is not the sum of the logs' points
C22_Witness ==
    \E r \in Requests :
        /\ StatsDone(r)
        /\ LET logs == LogsOf(req[r].pre.steps, req[r].user_id)
           IN  /\ Cardinality(logs) = 2
               /\ \E d \in logs, e \in logs : d.steps # e.steps
               /\ req[r].result.total_points # SumPoints(logs)

\* the calendar day that a stored date string names, as an ordinal
RefOrdinal(date) == ToOrdinal(RefYear(date), RefMonth(date), RefDay(date))

\* C23: in SpecHist, a history request for days in 1..365 returns at most
\* days StepLogs, all of the requesting user, in strictly descending order of
\* their calendar dates, and no log of the user that is left out is more
\* recent than a returned one; the store is as the request found it.
C23_HistoryWindow ==
    \A r \in Requests :
        (req[r].op = "history" /\ req[r].pc = "done") =>
            LET logs == LogsOf(req[r].pre.steps, req[r].user_id)
                h == req[r].result.history
                Returned == {d \in logs : \E i \in DOMAIN h :
                                h[i].date = d.date /\ h[i].steps = d.steps}
            IN  /\ req[r].exc = None
                /\ Len(h) = Min(req[r].days, Cardinality(logs))
                /\ req[r].result.total_records = Len(h)
                /\ Cardinality(Returned) = Len(h)
                /\ \A i \in DOMAIN h, j \in DOMAIN h :
                       i < j => RefOrdinal(h[i].date) > RefOrdinal(h[j].date)
                /\ \A d \in logs \ Returned, e \in Returned :
                       RefOrdinal(d.date) < RefOrdinal(e.date)
                /\ After(r).users = req[r].pre.users
                /\ After(r).clubs = req[r].pre.clubs
                /\ After(r).steps = req[r].pre.steps

\* C24: in SpecMessage, the contribution message is determined by the points
\* alone, whatever the club total: the neutral encouragement for 0 points,
\* the "Nice work!" tier for 1..4, the "Great job!" tier for 5..9 and the
\* "Amazing!" tier for 10 and more, each of the three carrying the points.
C24_ContributionTiers ==
    \A r \in Requests :
        (req[r].op = "calculate_club_contribution" /\ req[r].pc = "done") =>
            LET points == req[r].points
                message == req[r].result.club_contribution
            IN  /\ points = 0 =>
                       message = <<"Every step counts! Keep walking for your club!">>
                /\ (1 <= points /\ points <= 4) =>
                       message = <<"Nice work!", points,
                                   "points contributed to your club!">>
                /\ (5 <= points /\ points <= 9) =>
                       message = <<"Great job!", points,
                                   "points added to your club's total!">>
                /\ points >= 10 =>
                       message = <<"Amazing! You've earned", points,
                                   "points for your club!">>

\* the message for 4 points was computed against a club total of 100000
C24_Witness ==
    \E r \in Requests :
        /\ req[r].op = "calculate_club_contribution"
        /\ req[r].pc = "done"
        /\ req[r].points = 4
        /\ req[r].total_points = MAX_STEPS
        /\ req[r].result.club_contribution[1] = "Nice work!"

\* C25: in SpecAuth, a sync, history or statistics request without bearer
\* credential ends with HTTPException before its operation starts and leaves
\* the steps, users and clubs collections as it found them; and every request
\* that was served acts on the user id resolved from its credential, whatever
\* user id the client supplied.
C25_UnauthenticatedReachesNothing ==
    \A r \in Requests :
        req[r].pc # "idle" =>
            /\ req[r].pre.credentials = None =>
                   /\ req[r].pc = "done"
                   /\ req[r].exc = "HTTPException"
                   /\ req[r].user_id = None
                   /\ req[r].result = NoDoc
                   /\ After(r).steps = req[r].pre.steps
                   /\ After(r).users = req[r].pre.users
                   /\ After(r).clubs = req[r].pre.clubs
            /\ req[r].exc # "HTTPException" =>
                   /\ req[r].pre.credentials # None
                   /\ req[r].user_id = TokenSubject(req[r].pre.credentials)

\* a sync without credential was refused while the store held a StepLog, and
\* a sync whose client named another user was served for the token's user
C25_Witness ==
    \E r1 \in Requests, r2 \in Requests :
        /\ SyncDone(r1)
        /\ req[r1].pre.client_user_id # req[r1].user_id
        /\ r1 < r2
        /\ req[r2].op = "sync"
        /\ req[r2].pc = "done"
        /\ req[r2].pre.credentials = None
        /\ steps # {}

\* C26: in SpecFail, in every reachable state, whether a sync is under way,
\* has returned, has failed or was cut off: a sync has added points to a
\* club's total only if it has added its points to its user's total, and it
\* has added points to its user's total only if the StepLog of its
\* (user, date) is in the store.
C26_WriteOrdering ==
    \A r \in Requests :
        req[r].op = "sync" =>
            /\ (\E c \in Clubs : ClubCredit(r, c) > 0) => UserCredit(r) > 0
            /\ UserCredit(r) > 0 =>
                   get_step_log(After(r).steps, req[r].user_id, req[r].date) # NoDoc

\* a sync of a club member was cut off after its user increment and before
\* its club increment: the log is written, the user credited, no club credited
C26_Witness ==
    \E r \in Requests :
        /\ req[r].op = "sync"
        /\ req[r].exc = "CancelledError"
        /\ req[r].detail = "increment_club_points"
        /\ req[r].pre.users[req[r].user_id].club_id # None
        /\ UserCredit(r) > 0
        /\ \A c \in Clubs : ClubCredit(r, c) = 0
        /\ get_step_log(steps, req[r].user_id, req[r].date) # NoDoc

\* the StepLogs of S other than the one keyed (user_id, date)
OtherLogs(S, user_id, date) == {d \in S : d.id # StepDocId(user_id, date)}

\* C27: in SpecSeq, a sync by user U for date D, under way or returned,
\* leaves every StepLog other than the one keyed (U, D) as it was, leaves
\* every other user's record as it was, leaves U's club_id and total_steps
\* as they were, and changes the total of at most one club; and a fresh sync
\* of a user without club changes no club while U's total grows by its points.
C27_SyncFrame ==
    \A r \in Requests :
        req[r].op = "sync" =>
            LET U == req[r].user_id
                D == req[r].date
            IN  /\ OtherLogs(After(r).steps, U, D) = OtherLogs(req[r].pre.steps, U, D)
                /\ \A u \in Users \ {U} : After(r).users[u] = req[r].pre.users[u]
                /\ After(r).users[U].club_id = req[r].pre.users[U].club_id
                /\ After(r).users[U].total_steps = req[r].pre.users[U].total_steps
                /\ Cardinality({c \in Clubs : After(r).clubs[c] # req[r].pre.clubs[c]}) <= 1
                /\ (FreshDone(r) /\ req[r].pre.users[U].club_id = None) =>
                       /\ After(r).clubs = req[r].pre.clubs
                       /\ UserCredit(r) = req[r].points

\* two fresh syncs with points have returned while the store held another
\* StepLog and the other user's record: one by a club member, which changed
\* one club's total, and one by a user without club, which changed none
C27_Witness ==
    \E r1 \in Requests, r2 \in Requests :
        /\ FreshDone(r1) /\ FreshDone(r2)
        /\ req[r1].points > 0 /\ req[r2].points > 0
        /\ req[r1].pre.users[req[r1].user_id].club_id # None
        /\ \E c \in Clubs : ClubCredit(r1, c) = req[r1].points
        /\ req[r2].pre.users[req[r2].user_id].club_id = None
        /\ UserCredit(r2) = req[r2].points
        /\ OtherLogs(req[r2].pre.steps, req[r2].user_id, req[r2].date) # {}

\* the sum of the total_points of the records ids of collection F
RECURSIVE SumTotals(_, _)
SumTotals(F, ids) ==
    IF ids = {} THEN 0
    ELSE LET i == CHOOSE x \in ids : TRUE
         IN  F[i].total_points + SumTotals(F, ids \ {i})

\* C28: in SpecLedger, where all totals start at 0, no user record is deleted,
\* sync and join_club requests interleave in any order and a sync may fail or
\* be cut off at any round-trip, in every reachable state the sum of all
\* clubs' total points is at most the sum of all users' total points.
C28_ClubTotalsNeverExceedUserTotals ==
    SumTotals(clubs, Clubs) <= SumTotals(users, Users)

\* a user without club joined one while a sync of theirs, started before the
\* join, was under way, and the sync credited the club just joined
C28_Witness ==
    \E r1 \in Requests, r2 \in Requests :
        /\ r1 < r2
        /\ FreshDone(r1)
        /\ req[r1].user_id = "u2"
        /\ req[r2].op = "join" /\ req[r2].pc = "done" /\ req[r2].exc = None
        /\ req[r2].user_id = "u2"
        /\ req[r1].club_id = req[r2].join_club_id
        /\ clubs[req[r1].club_id].total_points = req[r1].points
        /\ SumTotals(clubs, Clubs) = SumTotals(users, Users)
        /\ SumTotals(users, Users) > 0

\* C29: in SpecStats, where the StepLogs of a user have distinct well-formed
\* dates none of which is after today, every statistics result satisfies
\* 0 <= current_streak <= longest_streak <= active_days.
C29_StreakBounds ==
    \A r \in Requests :
        StatsDone(r) =>
            /\ \A d \in LogsOf(steps, req[r].user_id) :
                   IsCalendarDate(d.date, AsciiDigits) /\ ~IsAfter(d.date, today)
            /\ 0 <= req[r].result.current_streak
            /\ req[r].result.current_streak <= req[r].result.longest_streak
            /\ req[r].result.longest_streak <= req[r].result.active_days

\* statistics were returned with all three inequalities strict
C29_Witness ==
    \E r \in Requests :
        /\ StatsDone(r)
        /\ 0 < req[r].result.current_streak
        /\ req[r].result.current_streak < req[r].result.longest_streak
        /\ req[r].result.longest_streak < req[r].result.active_days

\* C30: in SpecOrphan, every step of a sync made while the record of its user
\* is absent and a StepLog of its (user, date) exists leaves users, clubs and
\* steps as they are; the duplicate check sends the sync to the duplicate
\* answer with the StepLog it found in the store, and the duplicate answer
\* returns, without exception, is_duplicate with the points of that StepLog
\* as points_earned and total_points = 0.
C30_DuplicateOfMissingUser ==
    [][\A r \in Requests :
          (/\ req[r].op = "sync"
           /\ req'[r] # req[r]
           /\ get_user(users, req[r].user_id) = NoDoc
           /\ get_step_log(steps, req[r].user_id, req[r].date) # NoDoc
           /\ req[r].pc \in {"get_step_log", "dup_get_user"}) =>
              /\ users' = users
              /\ clubs' = clubs
              /\ steps' = steps
              /\ req'[r].exc = None
              /\ req[r].pc = "get_step_log" =>
                     /\ req'[r].pc = "dup_get_user"
                     /\ req'[r].existing_log =
                            get_step_log(steps, req[r].user_id, req[r].date)
              /\ req[r].pc = "dup_get_user" =>
                     /\ req'[r].pc = "done"
                     /\ req'[r].result.is_duplicate
                     /\ req'[r].result.is_verified
                     /\ req'[r].result.points_earned = req[r].existing_log.points
                     /\ req'[r].result.total_points = 0]_vars

\* a fresh sync credited its user, the user record was deleted, and a second
\* sync of the same (user, date) with other steps returned a duplicate with
\* the first sync's points and total 0
C30_Witness ==
    \E r1 \in Requests, r2 \in Requests :
        /\ FreshDone(r1)
        /\ req[r1].points > 0
        /\ SameKey(r1, r2)
        /\ SyncDone(r2)
        /\ req[r2].result.is_duplicate
        /\ req[r2].result.points_earned = req[r1].points
        /\ req[r2].steps \div STEPS_PER_POINT # req[r1].points
        /\ req[r2].result.total_points = 0
        /\ users[req[r2].user_id] = NoDoc
        /\ get_step_log(steps, req[r2].user_id, req[r2].date) # NoDoc

====
